---------------------------- MODULE Spec2Model ----------------------------
(***************************************************************************)
(* A model of whatsapp-me: the event fingerprint and duplicate cache       *)
(* (src/src/event-deduplication.ts), the message pipeline of the Baileys   *)
(* client (src/unnamed/part_000) and the date resolution of                *)
(* createEventVCard (src/src/whatsapp-client.ts).                          *)
(*                                                                         *)
(* Texts are sequences of one-character strings.  A null string is the     *)
(* one-element sequence Null, which no text equals because its element is  *)
(* not a single character.                                                 *)
(***************************************************************************)
EXTENDS Integers, Sequences, FiniteSets, TLC

Null == <<"null">>

(***************************************************************************)
(* Character classes of the regular expressions in normalizeText.          *)
(***************************************************************************)
Whitespace  == {" ", "\t", "\n"}
Punctuation == {".", ",", "!", "?", ";", ":"}
Quotes      == {"\"", "'"}

\* String.prototype.toLowerCase on one character (the letters the model uses).
LowerChar(c) ==
    CASE c = "A" -> "a"
      [] c = "B" -> "b"
      [] OTHER   -> c

ToLowerCase(s) == [i \in 1..Len(s) |-> LowerChar(s[i])]

RECURSIVE TrimStart(_)
TrimStart(s) ==
    IF s # <<>> /\ Head(s) \in Whitespace THEN TrimStart(Tail(s)) ELSE s

RECURSIVE TrimEnd(_)
TrimEnd(s) ==
    IF s # <<>> /\ s[Len(s)] \in Whitespace
    THEN TrimEnd(SubSeq(s, 1, Len(s) - 1))
    ELSE s

\* String.prototype.trim
Trim(s) == TrimEnd(TrimStart(s))

\* replace(/\s+/g, " "): every maximal run of whitespace becomes one space.
RECURSIVE CollapseWhitespace(_)
CollapseWhitespace(s) ==
    IF s = <<>> THEN <<>>
    ELSE IF Head(s) \in Whitespace
         THEN <<" ">> \o CollapseWhitespace(TrimStart(s))
         ELSE <<Head(s)>> \o CollapseWhitespace(Tail(s))

\* replace(/[...]/g, ""): every character of the class is removed.
RemoveChars(s, class) == SelectSeq(s, LAMBDA c : c \notin class)

\* EventDeduplicationService.normalizeText
normalizeText(text) ==
    IF text = Null \/ text = <<>> THEN <<>>
    ELSE RemoveChars(
             RemoveChars(CollapseWhitespace(Trim(ToLowerCase(text))), Punctuation),
             Quotes)


(***************************************************************************)
(* generateEventHash: JSON.stringify of the four normalised fields, then    *)
(* SHA-256.                                                                 *)
(***************************************************************************)
\* JSON.stringify of a string: the characters between double quotes, with
\* the double quote, the backslash and the control characters escaped.
JsonEscapeChar(c) ==
    CASE c = "\"" -> <<"\\", "\"">>
      [] c = "\\" -> <<"\\", "\\">>
      [] c = "\t" -> <<"\\", "t">>
      [] c = "\n" -> <<"\\", "n">>
      [] OTHER    -> <<c>>

RECURSIVE JsonEscape(_)
JsonEscape(s) ==
    IF s = <<>> THEN <<>> ELSE JsonEscapeChar(Head(s)) \o JsonEscape(Tail(s))

JsonString(s) == <<"\"">> \o JsonEscape(s) \o <<"\"">>

KeyTitle    == <<"t", "i", "t", "l", "e">>
KeyDate     == <<"d", "a", "t", "e">>
KeyTime     == <<"t", "i", "m", "e">>
KeyLocation == <<"l", "o", "c", "a", "t", "i", "o", "n">>

JsonMember(key, value) == JsonString(key) \o <<":">> \o JsonString(value)

\* The normalizedData object of generateEventHash.
normalizedData(eventData) ==
    [title    |-> normalizeText(eventData.title),
     date     |-> normalizeText(eventData.date),
     time     |-> normalizeText(eventData.time),
     location |-> normalizeText(eventData.location)]

\* A hash string that joins the four values with nothing between them.
JsonStringify_concat(data) ==
    data.title \o data.date \o data.time \o data.location

\* JSON.stringify(normalizedData): the members in insertion order.
JsonStringify(data) ==
    <<"{">> \o JsonMember(KeyTitle, data.title)
    \o <<",">> \o JsonMember(KeyDate, data.date)
    \o <<",">> \o JsonMember(KeyTime, data.time)
    \o <<",">> \o JsonMember(KeyLocation, data.location)
    \o <<"}">>

\* The pre-hash representation of an event.
hashString(eventData) == JsonStringify(normalizedData(eventData))

\* crypto.createHash("sha256").update(s).digest("hex"): the digest is
\* modelled as a value determined by s and by nothing else, different for
\* different s (SHA-256 taken to be collision free).
Sha256Hex(s) == <<"sha256", s>>

EventHashData(title, date, time, location) ==
    [title |-> title, date |-> date, time |-> time, location |-> location]

\* The events the calls draw from: the first two are canonically equal,
\* the third has the text of the first in another field.
EventPool ==
    { EventHashData(<<"a">>, Null, Null, Null),
      EventHashData(<<" ", "A", ".">>, Null, Null, <<"'">>),
      EventHashData(Null, Null, Null, <<"a">>) }

\* The fingerprints of the events of the pool, computed once.
PoolHash == [e \in EventPool |-> Sha256Hex(hashString(e))]

\* EventDeduplicationService.generateEventHash
generateEventHash(eventData) ==
    IF eventData \in EventPool THEN PoolHash[eventData]
    ELSE Sha256Hex(hashString(eventData))


(***************************************************************************)
(* The state.                                                              *)
(***************************************************************************)
VARIABLES
    ttlEnv,        \* process.env.EVENT_DEDUPLICATION_TTL_HOURS (Null: not set)
    TTL_SECONDS,   \* EventDeduplicationService.TTL_SECONDS
    cache,         \* the NodeCache data: fingerprint -> t, its expiry instant
    clock,         \* Date.now(), in milliseconds
    ticks,         \* number of clock advances so far
    nCalls,        \* number of calls of the service so far
    ret,           \* the last call of the service and what it returned
    stored,        \* history: fingerprint -> instant of its last cache.set
    firstSeen,     \* history: fingerprint -> instant shouldProcessEvent last
                   \* returned true for it
    initialized,   \* WhatsAppClient.initialize has called createSocket
    socket,        \* WhatsAppClient.socket is not null
    isReady,       \* WhatsAppClient.isReady
    connectionState,    \* WhatsAppClient.connectionState
    reconnectAttempts,  \* WhatsAppClient.reconnectAttempts
    shouldReconnect,    \* WhatsAppClient.shouldReconnect
    reconnecting,  \* close handlers waiting out the delay before createSocket
    loggingOut,    \* disconnect() is awaiting socket.logout()
    lastDisconnect,     \* history: the reason of the last close
    closes,        \* history: closes since the connection last opened
    targetGroupId, \* WhatsAppClient.targetGroupId (Null: not found yet)
    handler,       \* the running messages.upsert handlers and where each is
    received,      \* number of messages handed to messages.upsert so far
    messageHistory,     \* OpenAIService.messageHistory: chat id -> texts
    outbox,        \* what socket.sendMessage delivered to the target group
    decisions,     \* history: the duplicate checks of the pipeline, in order
    events,        \* number of connection, group and chat events so far
    \* The functions called on their own.
    hashArgs,      \* two EventHashData values
    hashes,        \* their pre-hash representations and fingerprints
    texts,         \* a text and a variant of it
    normalized,    \* what normalizeText makes of them
    dateArgs,      \* the reference date and the date phrase of an event
    eventDate,     \* the date createEventVCard resolves the phrase to
    cardArgs,      \* the clock and the EventDetails of a calendar record
    card,          \* the calendar record made from them
    historyArgs    \* chat id -> the messages given to addMessageToHistory

serviceVars == <<ttlEnv, TTL_SECONDS, cache, clock, ticks, nCalls, ret,
                 stored, firstSeen>>

connectionVars == <<initialized, socket, isReady, connectionState,
                    reconnectAttempts, shouldReconnect, reconnecting,
                    loggingOut, lastDisconnect, closes>>

pipelineVars == <<targetGroupId, handler, received, messageHistory, outbox,
                  decisions, events>>

clientVars == <<connectionVars, pipelineVars>>

callVars ==
    <<hashArgs, hashes, texts, normalized, dateArgs, eventDate, cardArgs, card,
      historyArgs>>

vars == <<serviceVars, clientVars, callVars>>

(***************************************************************************)
(* Bounds of the model.                                                    *)
(***************************************************************************)
MaxTicks == 2
MaxCalls == 3

(***************************************************************************)
(* EventDeduplicationService: construction.                                *)
(***************************************************************************)
DEFAULT_TTL_HOURS == 24

Digits == <<"0", "1", "2", "3", "4", "5", "6", "7", "8", "9">>
DigitChars == {Digits[i] : i \in 1..10}
DigitValue(c) == (CHOOSE i \in 1..10 : Digits[i] = c) - 1

\* Number.prototype.toString of a natural number.
RECURSIVE NumberToString(_)
NumberToString(n) ==
    IF n < 10 THEN <<Digits[n + 1]>>
    ELSE NumberToString(n \div 10) \o <<Digits[(n % 10) + 1]>>

RECURSIVE ParseDigits(_, _)
ParseDigits(s, acc) ==
    IF s # <<>> /\ Head(s) \in DigitChars
    THEN ParseDigits(Tail(s), acc * 10 + DigitValue(Head(s)))
    ELSE acc

\* parseInt of a string that starts with an optional sign and a digit:
\* the sign and the leading digits decide, the rest is ignored.
ParseInt(s) ==
    IF Head(s) = "-" THEN 0 - ParseDigits(Tail(s), 0)
    ELSE IF Head(s) = "+" THEN ParseDigits(Tail(s), 0)
    ELSE ParseDigits(s, 0)

\* The values of EVENT_DEDUPLICATION_TTL_HOURS the model draws from: not set
\* and numerals (a value parseInt cannot read is not modelled).
EnvValues == {Null, <<"0">>, <<"-", "1">>}

\* ttlHours of the constructor: the environment variable when it is set
\* and not empty, else the default, read by parseInt.
TtlHours(env) ==
    ParseInt(IF env = Null \/ env = <<>> THEN NumberToString(DEFAULT_TTL_HOURS)
             ELSE env)

\* TTL_SECONDS of the constructor.
TtlSeconds(env) == TtlHours(env) * 60 * 60

(***************************************************************************)
(* NodeCache (the node-cache package), as the service uses it: every data  *)
(* record carries t, the instant it expires at, with 0 for a record that   *)
(* never expires; has() deletes a record it finds expired.                 *)
(***************************************************************************)
TtlMultiplicator == 1000
MsPerHour == 60 * 60 * TtlMultiplicator

\* The instant the process starts at, late enough that no expiry instant of
\* a negative TTL reaches 0.
StartMs == 100 * MsPerHour

EmptyCache == [k \in {} |-> 0]

\* NodeCache._wrap: the livetime of a record stored now under stdTTL.
NodeCacheLivetime(now) ==
    IF TTL_SECONDS = 0 THEN 0 ELSE now + TTL_SECONDS * TtlMultiplicator

\* NodeCache._check: a record is invalid when its t is not 0 and is past.
NodeCacheCheck(t, now) == ~(t # 0 /\ t < now)

\* NodeCache.has: the value returned.
NodeCacheHas(c, now, key) == key \in DOMAIN c /\ NodeCacheCheck(c[key], now)

\* NodeCache.has: the data afterwards (deleteOnExpire).
NodeCacheAfterHas(c, now, key) ==
    IF key \in DOMAIN c /\ ~NodeCacheCheck(c[key], now)
    THEN [k \in DOMAIN c \ {key} |-> c[k]]
    ELSE c

\* NodeCache.set(key, true): the data afterwards.
NodeCacheSet(c, now, key) ==
    [k \in DOMAIN c \cup {key} |->
        IF k = key THEN NodeCacheLivetime(now) ELSE c[k]]

\* NodeCache._checkData: the periodic sweep deletes every expired record.
NodeCacheCheckData(c, now) ==
    [k \in {x \in DOMAIN c : NodeCacheCheck(c[x], now)} |-> c[k]]

(***************************************************************************)
(* EventDeduplicationService: the methods, as functions of the cache data  *)
(* and the current instant; each gives the value returned and the data     *)
(* afterwards.                                                             *)
(***************************************************************************)
\* isDuplicateEvent that looks the hash up among cache.keys().
isDuplicateEvent_keys(c, now, eventData) ==
    [value |-> generateEventHash(eventData) \in DOMAIN c, cache |-> c]

\* EventDeduplicationService.isDuplicateEvent
isDuplicateEvent(c, now, eventData) ==
    LET eventHash == generateEventHash(eventData)
    IN  [value |-> NodeCacheHas(c, now, eventHash),
         cache |-> NodeCacheAfterHas(c, now, eventHash)]

\* EventDeduplicationService.markEventAsProcessed
markEventAsProcessed(c, now, eventData) ==
    NodeCacheSet(c, now, generateEventHash(eventData))

\* shouldProcessEvent that marks the event on every call.
shouldProcessEvent_refresh(c, now, eventData) ==
    LET dup == isDuplicateEvent(c, now, eventData)
    IN  [value |-> ~dup.value,
         cache |-> markEventAsProcessed(dup.cache, now, eventData)]

\* shouldProcessEvent that never marks the event.
shouldProcessEvent_noMark(c, now, eventData) ==
    LET dup == isDuplicateEvent(c, now, eventData)
    IN  [value |-> ~dup.value, cache |-> dup.cache]

\* EventDeduplicationService.shouldProcessEvent
shouldProcessEvent(c, now, eventData) ==
    LET dup == isDuplicateEvent(c, now, eventData)
    IN  IF dup.value
        THEN [value |-> FALSE, cache |-> dup.cache]
        ELSE [value |-> TRUE,
              cache |-> markEventAsProcessed(dup.cache, now, eventData)]


(***************************************************************************)
(* WhatsAppClient (Baileys) and OpenAIService: the data the message        *)
(* pipeline works on.  A message text is a sequence of tokens; the code    *)
(* only asks whether it is blank and whether it includes a marker.         *)
(***************************************************************************)
\* Bounds of the client: the messages.upsert handlers that can be running
\* at once, the messages of one batch, the messages received in all, the
\* connection, chat and group events, and the clock advances.
NumHandlers == 2
MaxBatch == 2
MaxMessages == 2
MaxEvents == 1
MaxClientTicks == 1

Handlers == 1..NumHandlers

MAX_HISTORY_LENGTH == 5
maxReconnectAttempts == 3

\* WhatsAppClient.targetGroupName
targetGroupName == <<"target">>

\* The chats messages come from: a group and a contact.
GroupChat == [id |-> "g1@g.us", isGroup |-> TRUE, name |-> <<"family">>]
UserChat  == [id |-> "u1@s.whatsapp.net", isGroup |-> FALSE, name |-> <<"u1">>]

PlainText    == <<"dinner", " ", "friday">>
BlankText    == <<" ", "\n">>
SummaryText  == <<"Event Summary:", "\n", "dinner">>
DetailsText  == <<"Event details", " ", "dinner">>

\* messageText.includes(marker)
Includes(text, marker) == \E i \in 1..Len(text) : text[i] = marker

\* !messageText.trim()
IsBlank(text) == \A i \in 1..Len(text) : text[i] \in Whitespace

\* A WAMessage: key.fromMe, the content type of message.message ("none"
\* when there is no message.message), its text and key.remoteJid.
Message(fromMe, type, text, chat) ==
    [fromMe |-> fromMe, type |-> type, text |-> text, chat |-> chat]

MessagePool ==
    { Message(FALSE, "conversation", PlainText, UserChat),
      Message(FALSE, "extendedTextMessage", PlainText, GroupChat),
      Message(TRUE,  "conversation", PlainText, UserChat),
      Message(FALSE, "none", <<>>, UserChat),
      Message(FALSE, "imageMessage", <<>>, GroupChat),
      Message(FALSE, "conversation", BlankText, UserChat),
      Message(FALSE, "conversation", SummaryText, GroupChat),
      Message(FALSE, "extendedTextMessage", DetailsText, UserChat) }

NoMessage == Message(FALSE, "none", <<>>, UserChat)

\* The early returns without the test of key.fromMe.
Dropped_ownMessages(m) ==
    \/ m.type = "none"
    \/ m.type \notin {"conversation", "extendedTextMessage"}
    \/ IsBlank(m.text)
    \/ Includes(m.text, "Event Summary:")
    \/ Includes(m.text, "Event details")

\* handleIncomingMessage returns before it touches anything: the message is
\* the bot's own, has no content, is not a text, is blank, or carries one
\* of the markers of an event summary.
Dropped(m) ==
    \/ m.fromMe
    \/ m.type = "none"
    \/ m.type \notin {"conversation", "extendedTextMessage"}
    \/ IsBlank(m.text)
    \/ Includes(m.text, "Event Summary:")
    \/ Includes(m.text, "Event details")

\* The batches of one messages.upsert event.
Batches ==
    UNION { [1..n -> MessagePool] : n \in 1..MaxBatch }

\* An EventDetails as OpenAIService.analyzeMessage returns it.
EventDetails(isEvent, summary, e, startDateISO) ==
    [isEvent |-> isEvent, summary |-> summary, title |-> e.title,
     date |-> e.date, time |-> e.time, location |-> e.location,
     description |-> Null, startDateISO |-> startDateISO,
     endDateISO |-> Null]

NoFields == EventHashData(Null, Null, Null, Null)
IsoValid   == <<"2025-01-03T18:00:00.000Z">>
IsoInvalid == <<"friday evening">>
Summary    == <<"dinner on friday">>

NoEvent == EventDetails(FALSE, Null, NoFields, Null)

\* The event of the pool that has a title.
TitledEvent == EventHashData(<<"a">>, Null, Null, Null)

\* What an analysis can return: no event, an event flag without a summary,
\* a summary without the event flag, the events of the pool with a start
\* instant, and a titled event with a start that is not a date.
AnalysisPool ==
    { NoEvent,
      EventDetails(TRUE, Null, TitledEvent, IsoValid),
      EventDetails(FALSE, Summary, TitledEvent, IsoValid),
      EventDetails(TRUE, Summary, TitledEvent, IsoInvalid) }
    \cup {EventDetails(TRUE, Summary, e, IsoValid) : e \in EventPool}

\* new Date(iso).toISOString() throws a RangeError for an invalid date.
IsValidDate(iso) == iso = IsoValid

\* eventHashData of handleIncomingMessage.
eventHashData(analysis) ==
    EventHashData(analysis.title, analysis.date, analysis.time,
                  analysis.location)

\* addMessageToHistory keeping the first messages instead of the last.
addMessageToHistory_keepFirst(hist, chatId, message) ==
    LET history == (IF chatId \in DOMAIN hist THEN hist[chatId] ELSE <<>>)
                   \o <<message>>
        kept == IF Len(history) > MAX_HISTORY_LENGTH
                THEN SubSeq(history, 1, MAX_HISTORY_LENGTH)
                ELSE history
    IN  [c \in DOMAIN hist \cup {chatId} |->
            IF c = chatId THEN kept ELSE hist[c]]

\* OpenAIService.addMessageToHistory
addMessageToHistory(hist, chatId, message) ==
    LET history == (IF chatId \in DOMAIN hist THEN hist[chatId] ELSE <<>>)
                   \o <<message>>
        kept == IF Len(history) > MAX_HISTORY_LENGTH
                THEN SubSeq(history, Len(history) - MAX_HISTORY_LENGTH + 1,
                            Len(history))
                ELSE history
    IN  [c \in DOMAIN hist \cup {chatId} |->
            IF c = chatId THEN kept ELSE hist[c]]

\* A handler that is not running.
Idle ==
    [pc |-> "idle", batch |-> <<>>, msg |-> NoMessage, chatName |-> <<>>,
     analysis |-> NoEvent, groupId |-> Null, decidedAt |-> StartMs]

Running(pc, batch, msg, chatName) ==
    [pc |-> pc, batch |-> batch, msg |-> msg, chatName |-> chatName,
     analysis |-> NoEvent, groupId |-> Null, decidedAt |-> StartMs]

\* The loop of the messages.upsert handler from the head of batch on, up to
\* the first await: dropped messages are skipped; a group message waits for
\* groupMetadata (which throws at once, and is caught, when there is no
\* socket); any other message is added to the history and waits for
\* analyzeMessage.  Gives the handler and the history afterwards.
RECURSIVE StartNext(_, _, _)
StartNext(batch, hist, sock) ==
    IF batch = <<>> THEN [handler |-> Idle, history |-> hist]
    ELSE LET m == Head(batch)
         IN  IF Dropped(m) THEN StartNext(Tail(batch), hist, sock)
             ELSE IF m.chat.isGroup /\ sock
             THEN [handler |-> Running("metadata", Tail(batch), m, <<>>),
                   history |-> hist]
             ELSE [handler |-> Running("analyze", Tail(batch), m,
                                       IF m.chat.isGroup THEN <<>>
                                       ELSE m.chat.name),
                   history |-> addMessageToHistory(hist, m.chat.id, m.text)]

\* None of the functions has been called on its own.
NoArgs == [done |-> FALSE]

NothingCalled ==
    /\ hashArgs = NoArgs
    /\ historyArgs = NoArgs
    /\ hashes = NoArgs
    /\ texts = NoArgs
    /\ normalized = NoArgs
    /\ dateArgs = NoArgs
    /\ eventDate = NoArgs
    /\ cardArgs = NoArgs
    /\ card = NoArgs

\* The client before initialize() is called: the field initialisers of
\* WhatsAppClient and of OpenAIService.
ClientConstructed ==
    /\ initialized = FALSE
    /\ socket = FALSE
    /\ isReady = FALSE
    /\ connectionState = "close"
    /\ reconnectAttempts = 0
    /\ shouldReconnect = TRUE
    /\ reconnecting = 0
    /\ loggingOut = FALSE
    /\ lastDisconnect = "none"
    /\ closes = 0
    /\ handler = [h \in Handlers |-> Idle]
    /\ received = 0
    /\ messageHistory = [c \in {} |-> <<>>]
    /\ outbox = <<>>
    /\ decisions = <<>>
    /\ events = 0

(***************************************************************************)
(* The service on its own: any sequence of calls of its public methods,    *)
(* clock advances and sweeps of the cache.                                 *)
(***************************************************************************)
\* The clock advances by a millisecond or by a day.
ClockSteps == {1, 24 * MsPerHour}

NoCall == [op |-> "none", fp |-> <<>>, value |-> FALSE, at |-> StartMs,
           first |-> TRUE, seen |-> StartMs]

\* The record of a call: the method, the fingerprint, the value returned, the
\* instant of the call, whether shouldProcessEvent had never returned true
\* for the fingerprint before and, if it had, the instant it last did.
Call(op, fp, value) ==
    [op |-> op, fp |-> fp, value |-> value, at |-> clock,
     first |-> fp \notin DOMAIN firstSeen,
     seen |-> IF fp \in DOMAIN firstSeen THEN firstSeen[fp] ELSE clock]

\* The service after its constructor has run with env as the value of
\* EVENT_DEDUPLICATION_TTL_HOURS.
ServiceConstructed(env) ==
    /\ ttlEnv = env
    /\ TTL_SECONDS = TtlSeconds(env)
    /\ cache = EmptyCache
    /\ clock = StartMs
    /\ ticks = 0
    /\ nCalls = 0
    /\ ret = NoCall
    /\ stored = EmptyCache
    /\ firstSeen = EmptyCache

ServiceInit ==
    /\ \E env \in EnvValues : ServiceConstructed(env)
    /\ ClientConstructed
    /\ targetGroupId = Null
    /\ NothingCalled

Record(f, key, at) ==
    [k \in DOMAIN f \cup {key} |-> IF k = key THEN at ELSE f[k]]

Tick(max) ==
    /\ UNCHANGED callVars
    /\ ticks < max
    /\ \E d \in ClockSteps : clock' = clock + d
    /\ ticks' = ticks + 1
    /\ UNCHANGED <<ttlEnv, TTL_SECONDS, cache, nCalls, ret, stored, firstSeen>>
    /\ UNCHANGED clientVars

\* The checkperiod timer of NodeCache fires.
CheckData ==
    /\ UNCHANGED callVars
    /\ cache' = NodeCacheCheckData(cache, clock)
    /\ cache' # cache
    /\ UNCHANGED <<ttlEnv, TTL_SECONDS, clock, ticks, nCalls, ret, stored,
                   firstSeen>>
    /\ UNCHANGED clientVars

ShouldProcessEvent(e) ==
    LET r == shouldProcessEvent(cache, clock, e)
        fp == generateEventHash(e)
    IN  /\ UNCHANGED callVars
        /\ nCalls < MaxCalls
        /\ nCalls' = nCalls + 1
        /\ cache' = r.cache
        /\ ret' = Call("shouldProcessEvent", fp, r.value)
        /\ stored' = IF r.value THEN Record(stored, fp, clock) ELSE stored
        /\ firstSeen' = IF r.value THEN Record(firstSeen, fp, clock)
                        ELSE firstSeen
        /\ UNCHANGED <<ttlEnv, TTL_SECONDS, clock, ticks>>
        /\ UNCHANGED clientVars

IsDuplicateEvent(e) ==
    LET r == isDuplicateEvent(cache, clock, e)
    IN  /\ UNCHANGED callVars
        /\ nCalls < MaxCalls
        /\ nCalls' = nCalls + 1
        /\ cache' = r.cache
        /\ ret' = Call("isDuplicateEvent", generateEventHash(e), r.value)
        /\ UNCHANGED <<ttlEnv, TTL_SECONDS, clock, ticks, stored, firstSeen>>
        /\ UNCHANGED clientVars

MarkEventAsProcessed(e) ==
    /\ UNCHANGED callVars
    /\ nCalls < MaxCalls
    /\ nCalls' = nCalls + 1
    /\ cache' = markEventAsProcessed(cache, clock, e)
    /\ ret' = Call("markEventAsProcessed", generateEventHash(e), FALSE)
    /\ stored' = Record(stored, generateEventHash(e), clock)
    /\ UNCHANGED <<ttlEnv, TTL_SECONDS, clock, ticks, firstSeen>>
    /\ UNCHANGED clientVars

\* EventDeduplicationService.clearCache: NodeCache.flushAll
ClearCache ==
    /\ UNCHANGED callVars
    /\ nCalls < MaxCalls
    /\ nCalls' = nCalls + 1
    /\ cache' = EmptyCache
    /\ ret' = Call("clearCache", <<>>, FALSE)
    /\ stored' = EmptyCache
    /\ UNCHANGED <<ttlEnv, TTL_SECONDS, clock, ticks, firstSeen>>
    /\ UNCHANGED clientVars

ShouldProcessNext ==
    \/ \E e \in EventPool : ShouldProcessEvent(e)
    \/ Tick(MaxTicks)
    \/ CheckData

\* One service, called through shouldProcessEvent alone.
SpecShouldProcess == ServiceInit /\ [][ShouldProcessNext]_vars

ServiceNext ==
    \/ \E e \in EventPool : ShouldProcessEvent(e)
    \/ \E e \in EventPool : IsDuplicateEvent(e)
    \/ \E e \in EventPool : MarkEventAsProcessed(e)
    \/ ClearCache
    \/ Tick(MaxTicks)
    \/ CheckData

\* One service, called through all its public methods.
SpecService == ServiceInit /\ [][ServiceNext]_vars


(***************************************************************************)
(* Properties of the duplicate cache.                                      *)
(***************************************************************************)
\* The configured retention window, in milliseconds.
RetentionWindowMs == TTL_SECONDS * TtlMultiplicator

\* C1 (as claimed): of the calls of shouldProcessEvent on one service, the
\* first for a fingerprint returns true, a later one made before the first
\* sighting plus the retention window returns false, and one made after
\* that window has elapsed returns true again.
C1_TrueOncePerWindow ==
    ret.op = "shouldProcessEvent" =>
        /\ ret.first => ret.value
        /\ (~ret.first /\ ret.at < ret.seen + RetentionWindowMs) => ~ret.value
        /\ (~ret.first /\ ret.at > ret.seen + RetentionWindowMs) => ret.value

\* C1, for the services whose retention window is positive.
C1_TrueOncePerPositiveWindow == TTL_SECONDS > 0 => C1_TrueOncePerWindow

\* C3: a call of shouldProcessEvent that returns false leaves the cache as
\* it was: no entry added, none removed, no expiry instant changed.
C3_DuplicateLeavesCacheUnchanged ==
    [][(nCalls' = nCalls + 1 /\ ret'.op = "shouldProcessEvent" /\ ~ret'.value)
          => cache' = cache]_vars

\* A duplicate was refused while its entry was in the cache.
C3_Witness ==
    /\ ret.op = "shouldProcessEvent"
    /\ ~ret.value
    /\ ret.fp \in DOMAIN cache
    /\ clock > ret.at

\* An entry is present when it was stored, not cleared since, and the
\* current instant is not past its expiry, one retention window after it
\* was stored (a window of 0 seconds is node-cache's "never expires").
Present(fp) ==
    /\ fp \in DOMAIN stored
    /\ (TTL_SECONDS = 0 \/ clock <= stored[fp] + RetentionWindowMs)

\* C4: isDuplicateEvent returns true exactly for the events whose entry is
\* present, whether or not an expired entry is still held in the cache.
C4_DuplicateIffPresent ==
    \A e \in EventPool :
        isDuplicateEvent(cache, clock, e).value = Present(generateEventHash(e))

\* An expired entry is still held in the cache and is not a duplicate, while
\* another call found a live entry.
C4_Witness ==
    /\ \E e \in EventPool :
          /\ generateEventHash(e) \in DOMAIN cache
          /\ ~isDuplicateEvent(cache, clock, e).value
    /\ ret.op = "isDuplicateEvent"

\* C6 (as claimed): the retention window in effect is positive, and every
\* entry expires exactly one window after it was stored.
C6_RetentionWindowPositive ==
    /\ TTL_SECONDS > 0
    /\ \A k \in DOMAIN cache : cache[k] = stored[k] + RetentionWindowMs


(***************************************************************************)
(* WhatsAppClient: the connection.                                         *)
(***************************************************************************)
\* initialize(): createSocket makes the socket and registers the listeners.
Initialize ==
    /\ UNCHANGED callVars
    /\ ~initialized
    /\ initialized' = TRUE
    /\ socket' = TRUE
    /\ UNCHANGED <<isReady, connectionState, reconnectAttempts,
                   shouldReconnect, reconnecting, loggingOut>>
    /\ UNCHANGED <<lastDisconnect, closes>>
    /\ UNCHANGED <<serviceVars, pipelineVars>>

\* The listener without the limit on the reconnection attempts.
ConnectionUpdate_noLimit(connection, loggedOut) ==
    /\ UNCHANGED callVars
    /\ initialized
    /\ \/ /\ connection = "close"
          /\ connectionState' = "close"
          /\ isReady' = FALSE
          /\ lastDisconnect' = IF loggedOut THEN "loggedOut" ELSE "other"
          /\ closes' = closes + 1
          /\ IF ~loggedOut /\ shouldReconnect
             THEN /\ reconnectAttempts' = reconnectAttempts + 1
                  /\ reconnecting' = reconnecting + 1
             ELSE UNCHANGED <<reconnectAttempts, reconnecting>>
       \/ /\ connection = "open"
          /\ connectionState' = "open"
          /\ isReady' = TRUE
          /\ reconnectAttempts' = 0
          /\ closes' = 0
          /\ UNCHANGED <<reconnecting, lastDisconnect>>
       \/ /\ connection = "connecting"
          /\ connectionState' = "connecting"
          /\ UNCHANGED <<isReady, reconnectAttempts, reconnecting>>
          /\ UNCHANGED <<lastDisconnect, closes>>
    /\ UNCHANGED <<initialized, socket, shouldReconnect, loggingOut>>
    /\ UNCHANGED <<targetGroupId, handler, received, messageHistory, outbox,
                   decisions>>
    /\ UNCHANGED serviceVars

\* The connection.update listener, up to its first await.  loggedOut: the
\* status code of lastDisconnect is DisconnectReason.loggedOut.
ConnectionUpdate(connection, loggedOut) ==
    /\ UNCHANGED callVars
    /\ initialized
    /\ \/ /\ connection = "close"
          /\ connectionState' = "close"
          /\ isReady' = FALSE
          /\ lastDisconnect' = IF loggedOut THEN "loggedOut" ELSE "other"
          /\ closes' = closes + 1
          /\ IF ~loggedOut /\ shouldReconnect
                /\ reconnectAttempts < maxReconnectAttempts
             THEN /\ reconnectAttempts' = reconnectAttempts + 1
                  /\ reconnecting' = reconnecting + 1
             ELSE UNCHANGED <<reconnectAttempts, reconnecting>>
       \/ /\ connection = "open"
          /\ connectionState' = "open"
          /\ isReady' = TRUE
          /\ reconnectAttempts' = 0
          /\ closes' = 0
          /\ UNCHANGED <<reconnecting, lastDisconnect>>
       \/ /\ connection = "connecting"
          /\ connectionState' = "connecting"
          /\ UNCHANGED <<isReady, reconnectAttempts, reconnecting>>
          /\ UNCHANGED <<lastDisconnect, closes>>
    /\ UNCHANGED <<initialized, socket, shouldReconnect, loggingOut>>
    /\ UNCHANGED <<targetGroupId, handler, received, messageHistory, outbox,
                   decisions>>
    /\ UNCHANGED serviceVars

\* The close branch of the listener after its 5 second wait: createSocket.
Reconnect ==
    /\ UNCHANGED callVars
    /\ reconnecting > 0
    /\ reconnecting' = reconnecting - 1
    /\ socket' = TRUE
    /\ UNCHANGED <<initialized, isReady, connectionState, reconnectAttempts,
                   shouldReconnect, loggingOut, lastDisconnect, closes>>
    /\ UNCHANGED <<serviceVars, pipelineVars>>

\* disconnect(), up to the await of socket.logout().
Disconnect ==
    /\ UNCHANGED callVars
    /\ initialized
    /\ ~loggingOut
    /\ shouldReconnect' = FALSE
    /\ IF socket
       THEN loggingOut' = TRUE /\ UNCHANGED <<isReady, socket>>
       ELSE isReady' = FALSE /\ socket' = FALSE /\ UNCHANGED loggingOut
    /\ UNCHANGED <<initialized, connectionState, reconnectAttempts,
                   reconnecting, lastDisconnect, closes>>
    /\ UNCHANGED <<targetGroupId, handler, received, messageHistory, outbox,
                   decisions>>
    /\ UNCHANGED serviceVars

\* disconnect(), after socket.logout() has settled either way.
DisconnectDone ==
    /\ UNCHANGED callVars
    /\ loggingOut
    /\ loggingOut' = FALSE
    /\ isReady' = FALSE
    /\ socket' = FALSE
    /\ UNCHANGED <<initialized, connectionState, reconnectAttempts,
                   shouldReconnect, reconnecting, lastDisconnect, closes>>
    /\ UNCHANGED <<serviceVars, pipelineVars>>

(***************************************************************************)
(* WhatsAppClient: the target group.                                       *)
(***************************************************************************)
\* The chats of chats.upsert and the groups of groups.update.
TargetChat  == [id |-> <<"t1@g.us">>, isGroup |-> TRUE, name |-> targetGroupName]
TargetTwin  == [id |-> <<"t2@g.us">>, isGroup |-> TRUE, name |-> targetGroupName]
TargetNamedContact ==
    [id |-> <<"t3@s.whatsapp.net">>, isGroup |-> FALSE, name |-> targetGroupName]
OtherGroup  == [id |-> <<"g1@g.us">>, isGroup |-> TRUE, name |-> <<"family">>]
ChatPool == {TargetChat, TargetTwin, TargetNamedContact, OtherGroup}

\* groups.update tells of groups only.
GroupPool == {c \in ChatPool : c.isGroup}

\* TARGET_GROUP_ID of the environment, trimmed (Null: not set or empty).
EnvTargetGroupIds == {Null, <<"env@g.us">>}

\* configureTargetGroup: the target group id after construction.
configureTargetGroup(envTargetGroupId) ==
    IF envTargetGroupId # Null THEN envTargetGroupId ELSE Null

\* The chats.upsert listener without its test of targetGroupId.
ChatsUpsert_reassign(chat) ==
    /\ UNCHANGED callVars
    /\ initialized
    /\ targetGroupId' =
          IF chat.isGroup /\ chat.name = targetGroupName
          THEN chat.id ELSE targetGroupId
    /\ UNCHANGED <<handler, received, messageHistory, outbox, decisions>>
    /\ UNCHANGED <<serviceVars, connectionVars>>

\* The chats.upsert listener, for one chat of the list.
ChatsUpsert(chat) ==
    /\ UNCHANGED callVars
    /\ initialized
    /\ targetGroupId' =
          IF chat.isGroup /\ chat.name = targetGroupName /\ targetGroupId = Null
          THEN chat.id ELSE targetGroupId
    /\ UNCHANGED <<handler, received, messageHistory, outbox, decisions>>
    /\ UNCHANGED <<serviceVars, connectionVars>>

\* The groups.update listener, for one update of the list, after its
\* groupMetadata lookup (whose result only goes to the metadata cache).
\* hasSubject: the update carries the group's subject.
GroupsUpdate(group, hasSubject) ==
    /\ UNCHANGED callVars
    /\ initialized
    /\ targetGroupId' =
          IF hasSubject /\ targetGroupId = Null /\ group.name = targetGroupName
          THEN group.id ELSE targetGroupId
    /\ UNCHANGED <<handler, received, messageHistory, outbox, decisions>>
    /\ UNCHANGED <<serviceVars, connectionVars>>

(***************************************************************************)
(* WhatsAppClient: the messages.upsert listener and handleIncomingMessage, *)
(* one action per stretch of code between two awaits.                      *)
(***************************************************************************)
\* Handler h goes on with the next message of its batch.
Finish(h) ==
    LET n == StartNext(handler[h].batch, messageHistory, socket)
    IN  /\ handler' = [handler EXCEPT ![h] = n.handler]
        /\ messageHistory' = n.history

\* Handler h waits at its next await.
Proceed(h, rec) ==
    /\ handler' = [handler EXCEPT ![h] = rec]
    /\ UNCHANGED messageHistory

\* A messages.upsert event arrives: nothing happens unless its type is
\* "notify"; else the messages are handled one after the other.
Upsert(h, type, messages) ==
    /\ UNCHANGED callVars
    /\ initialized
    /\ handler[h].pc = "idle"
    /\ received + Len(messages) <= MaxMessages
    /\ received' = received + Len(messages)
    /\ IF type # "notify"
       THEN UNCHANGED <<handler, messageHistory>>
       ELSE LET n == StartNext(messages, messageHistory, socket)
            IN  /\ handler' = [handler EXCEPT ![h] = n.handler]
                /\ messageHistory' = n.history
    /\ UNCHANGED <<targetGroupId, outbox, decisions, events>>
    /\ UNCHANGED <<serviceVars, connectionVars>>

\* socket.groupMetadata settles: with a subject, with an empty subject, or
\* with an error, which is caught.
MetadataDone(h, outcome) ==
    LET hd == handler[h]
        chatName == CASE outcome = "subject" -> hd.msg.chat.name
                      [] outcome = "empty"   -> <<"Unknown Group">>
                      [] OTHER               -> <<>>
    IN  /\ UNCHANGED callVars
        /\ hd.pc = "metadata"
        /\ handler' = [handler EXCEPT ![h] =
                          [hd EXCEPT !.pc = "analyze", !.chatName = chatName]]
        /\ messageHistory' =
              addMessageToHistory(messageHistory, hd.msg.chat.id, hd.msg.text)
        /\ UNCHANGED <<targetGroupId, received, outbox, decisions, events>>
        /\ UNCHANGED <<serviceVars, connectionVars>>

\* The gate of the duplicate check and of the notification:
\* analysis.isEvent && analysis.summary.
EventDetected_flagOnly(analysis) == analysis.isEvent

EventDetected(analysis) == analysis.isEvent /\ analysis.summary # Null

\* History: handler h called shouldProcessEvent for analysis at instant at
\* and got value, with the target group being groupId.
Decision(h, analysis, value, at) ==
    [h |-> h, fp |-> generateEventHash(eventHashData(analysis)),
     isEvent |-> analysis.isEvent, hasSummary |-> analysis.summary # Null,
     value |-> value, at |-> at, groupId |-> targetGroupId]

\* analyzeMessage settles with analysis: the duplicate check, and the start
\* of the send when the event is new and the target group is known.
AnalyzeDone(h, analysis) ==
    LET hd == handler[h]
        should == shouldProcessEvent(cache, clock, eventHashData(analysis))
        ready == socket /\ isReady
        sending(pc) == [hd EXCEPT !.pc = pc, !.analysis = analysis,
                                  !.groupId = targetGroupId,
                                  !.decidedAt = clock]
    IN  /\ UNCHANGED callVars
        /\ hd.pc = "analyze"
        /\ IF EventDetected(analysis)
           THEN /\ cache' = should.cache
                /\ decisions' = Append(decisions,
                                        Decision(h, analysis, should.value,
                                                 clock))
                /\ IF ~should.value
                   THEN Finish(h)
                   ELSE IF targetGroupId = Null
                   THEN Finish(h)
                   ELSE IF ~ready
                   THEN Finish(h)
                   ELSE IF analysis.title # Null /\ analysis.startDateISO # Null
                   THEN IF IsValidDate(analysis.startDateISO)
                        THEN Proceed(h, sending("sendUnified"))
                        ELSE Proceed(h, sending("sendFallback"))
                   ELSE Proceed(h, sending("sendText"))
           ELSE /\ Finish(h)
                /\ UNCHANGED <<cache, decisions>>
        /\ UNCHANGED <<targetGroupId, received, outbox, events>>
        /\ UNCHANGED <<ttlEnv, TTL_SECONDS, clock, ticks, nCalls, ret, stored,
                       firstSeen>>
        /\ UNCHANGED connectionVars

\* What was delivered to the target group, and for which decision.
Delivery(h, hd) ==
    [kind |-> hd.pc, to |-> hd.groupId, h |-> h, analysis |-> hd.analysis,
     decidedAt |-> hd.decidedAt]

\* socket.sendMessage settles, and a failed text fallback is followed by
\* another unified message.
SendDone_resend(h, delivered) ==
    LET hd == handler[h]
    IN  /\ UNCHANGED callVars
        /\ hd.pc \in {"sendUnified", "sendText", "sendFallback"}
        /\ outbox' = IF delivered THEN Append(outbox, Delivery(h, hd)) ELSE outbox
        /\ IF ~delivered /\ hd.pc = "sendUnified" /\ socket /\ isReady
           THEN Proceed(h, [hd EXCEPT !.pc = "sendFallback"])
           ELSE IF ~delivered /\ hd.pc = "sendFallback"
           THEN Proceed(h, [hd EXCEPT !.pc = "sendUnified"])
           ELSE Finish(h)
        /\ UNCHANGED <<targetGroupId, received, decisions, events>>
        /\ UNCHANGED <<serviceVars, connectionVars>>

\* socket.sendMessage settles, with a failure that is not caught: the error
\* leaves handleIncomingMessage and ends the loop over the batch.
SendDone_propagates(h, delivered) ==
    LET hd == handler[h]
    IN  /\ UNCHANGED callVars
        /\ hd.pc \in {"sendUnified", "sendText", "sendFallback"}
        /\ outbox' = IF delivered THEN Append(outbox, Delivery(h, hd)) ELSE outbox
        /\ IF ~delivered
           THEN Proceed(h, Idle)
           ELSE Finish(h)
        /\ UNCHANGED <<targetGroupId, received, decisions, events>>
        /\ UNCHANGED <<serviceVars, connectionVars>>

\* socket.sendMessage settles: delivered, or failed with an error that is
\* caught; a failed unified message is followed by the text fallback.
SendDone(h, delivered) ==
    LET hd == handler[h]
    IN  /\ UNCHANGED callVars
        /\ hd.pc \in {"sendUnified", "sendText", "sendFallback"}
        /\ outbox' = IF delivered THEN Append(outbox, Delivery(h, hd)) ELSE outbox
        /\ IF ~delivered /\ hd.pc = "sendUnified" /\ socket /\ isReady
           THEN Proceed(h, [hd EXCEPT !.pc = "sendFallback"])
           ELSE Finish(h)
        /\ UNCHANGED <<targetGroupId, received, decisions, events>>
        /\ UNCHANGED <<serviceVars, connectionVars>>

(***************************************************************************)
(* The program: the client with its duplicate cache.                       *)
(***************************************************************************)
Init ==
    /\ \E env \in EnvValues : ServiceConstructed(env)
    /\ ClientConstructed
    /\ \E id \in EnvTargetGroupIds : targetGroupId = configureTargetGroup(id)
    /\ NothingCalled

\* One more of the events that the socket and the application bring about:
\* connection updates, chat and group updates, and calls of disconnect().
External ==
    /\ events < MaxEvents
    /\ events' = events + 1

Next ==
    \/ Initialize
    \/ \E c \in {"close", "open", "connecting"}, lo \in BOOLEAN :
          External /\ ConnectionUpdate(c, lo)
    \/ External /\ Disconnect
    \/ \E chat \in ChatPool : External /\ ChatsUpsert(chat)
    \/ \E g \in GroupPool, hasSubject \in BOOLEAN :
          External /\ GroupsUpdate(g, hasSubject)
    \/ Reconnect
    \/ DisconnectDone
    \/ \E h \in Handlers, type \in {"notify", "append"}, b \in Batches :
          Upsert(h, type, b)
    \/ \E h \in Handlers, o \in {"subject", "empty", "throws"} :
          MetadataDone(h, o)
    \/ \E h \in Handlers, a \in AnalysisPool : AnalyzeDone(h, a)
    \/ \E h \in Handlers, d \in BOOLEAN : SendDone(h, d)
    \/ Tick(MaxClientTicks)
    \/ CheckData

Spec == Init /\ [][Next]_vars

(***************************************************************************)
(* Properties of the pipeline.                                             *)
(***************************************************************************)
\* The fingerprint of an analysis.
Fingerprint(analysis) == generateEventHash(eventHashData(analysis))

\* Two duplicate checks i < j of the pipeline meet in one retention window:
\* they are for equal fingerprints, the fingerprint was not checked before
\* i, and j comes less than the retention window after i.
SameWindow(i, j) ==
    /\ i < j
    /\ decisions[i].fp = decisions[j].fp
    /\ \A k \in 1..(i - 1) : decisions[k].fp # decisions[i].fp
    /\ decisions[j].at < decisions[i].at + RetentionWindowMs

\* C2: when two interleaved handleIncomingMessage executions (of different
\* messages.upsert batches) reach shouldProcessEvent with equal fingerprints
\* inside one retention window, exactly one of them gets true: the first.
C2_ExactlyOneOfInterleaved ==
    \A i, j \in DOMAIN decisions :
        (SameWindow(i, j) /\ decisions[i].h # decisions[j].h)
            => (decisions[i].value /\ ~decisions[j].value)

\* Both handlers are past their analysis of events with equal fingerprints
\* (from different fields): the first is still waiting for its send while
\* the second has been turned down.
C2_Witness ==
    /\ Len(decisions) = 2
    /\ SameWindow(1, 2)
    /\ decisions[1].h # decisions[2].h
    /\ handler[decisions[1].h].pc \in {"sendUnified", "sendText", "sendFallback"}
    /\ decisions[1].value /\ ~decisions[2].value
    /\ TTL_SECONDS > 0

\* C5: the duplicate cache is consulted, and a notification sent, only for
\* an analysis with isEvent and a summary; a notification is sent only for
\* a message whose shouldProcessEvent call returned true; and no two
\* notifications for one fingerprint are decided inside one retention
\* window.
C5_NotificationsGated ==
    /\ \A d \in DOMAIN decisions :
          decisions[d].isEvent /\ decisions[d].hasSummary
    /\ \A n \in DOMAIN outbox :
          /\ outbox[n].analysis.isEvent
          /\ outbox[n].analysis.summary # Null
          /\ \E d \in DOMAIN decisions :
                /\ decisions[d].h = outbox[n].h
                /\ decisions[d].at = outbox[n].decidedAt
                /\ decisions[d].fp = Fingerprint(outbox[n].analysis)
                /\ decisions[d].value
    /\ \A m, n \in DOMAIN outbox :
          (m # n /\ Fingerprint(outbox[m].analysis)
                       = Fingerprint(outbox[n].analysis)
                /\ outbox[m].decidedAt <= outbox[n].decidedAt)
             => outbox[n].decidedAt >= outbox[m].decidedAt + RetentionWindowMs

\* A notification has been delivered for an event, and a later message
\* with an equal fingerprint has been turned down without one.
C5_Witness ==
    /\ Len(outbox) = 1
    /\ Len(decisions) = 2
    /\ decisions[1].value /\ ~decisions[2].value
    /\ decisions[1].fp = decisions[2].fp
    /\ Fingerprint(outbox[1].analysis) = decisions[1].fp
    /\ \A h \in Handlers : handler[h].pc = "idle"
    /\ TTL_SECONDS > 0

(***************************************************************************)
(* generateEventHash called on its own, for two events.                    *)
(***************************************************************************)
\* The program at rest, while a function is called on its own.
ProgramIdle ==
    /\ ServiceConstructed(Null)
    /\ ClientConstructed
    /\ targetGroupId = Null

\* The values a field of an event is drawn from: null, empty, a text and
\* a text with the same canonical form.
FieldValues == {Null, <<>>, <<"a">>, <<"A", ".">>}

HashEvents ==
    {EventHashData(t, d, tm, l) :
        t \in FieldValues, d \in FieldValues, tm \in FieldValues,
        l \in FieldValues}

HashInit ==
    /\ ProgramIdle
    /\ hashArgs \in [a : HashEvents, b : HashEvents]
    /\ hashes = NoArgs
    /\ historyArgs = NoArgs
    /\ texts = NoArgs
    /\ normalized = NoArgs
    /\ dateArgs = NoArgs
    /\ eventDate = NoArgs
    /\ cardArgs = NoArgs
    /\ card = NoArgs

\* generateEventHash is called for both events.
GenerateEventHash ==
    /\ ~hashes.done
    /\ hashes' = [done |-> TRUE,
                  hashStringA |-> hashString(hashArgs.a),
                  hashStringB |-> hashString(hashArgs.b),
                  a |-> generateEventHash(hashArgs.a),
                  b |-> generateEventHash(hashArgs.b)]
    /\ UNCHANGED <<hashArgs, texts, normalized, dateArgs, eventDate, cardArgs, card,
                   historyArgs>>
    /\ UNCHANGED <<serviceVars, clientVars>>

SpecHash == HashInit /\ [][GenerateEventHash]_vars

\* The canonical form of a field: null counts as empty.
Canonical(value) == normalizeText(value)

CanonicallyEqual(a, b) ==
    /\ Canonical(a.title) = Canonical(b.title)
    /\ Canonical(a.date) = Canonical(b.date)
    /\ Canonical(a.time) = Canonical(b.time)
    /\ Canonical(a.location) = Canonical(b.location)

\* C7: two events whose four fields are pairwise canonically equal get the
\* same fingerprint; two events whose canonical forms differ in a field
\* get different pre-hash representations and different fingerprints.
C7_FingerprintOfCanonicalForms ==
    hashes.done =>
        IF CanonicallyEqual(hashArgs.a, hashArgs.b)
        THEN hashes.a = hashes.b
        ELSE hashes.hashStringA # hashes.hashStringB /\ hashes.a # hashes.b

\* Title "a" and no location against no title and location "a": the
\* fingerprints differ.
C7_Witness ==
    /\ hashes.done
    /\ hashArgs.a = EventHashData(<<"a">>, Null, Null, <<>>)
    /\ hashArgs.b = EventHashData(<<>>, Null, Null, <<"a">>)
    /\ hashes.a # hashes.b

(***************************************************************************)
(* normalizeText called on its own, for a text and a variant of it that     *)
(* differs in case, in whitespace and in punctuation and quote marks.       *)
(***************************************************************************)
MaxTextLen == 3

\* The characters of the texts: letters in both cases, a whitespace, a
\* punctuation mark and a quote mark.
TextAlphabet == {"a", "A", " ", ".", "'"}
Marks == (Punctuation \cup Quotes) \cap TextAlphabet
Spaces == Whitespace \cap TextAlphabet

Texts == UNION { [1..n -> TextAlphabet] : n \in 0..MaxTextLen }

\* text with c put in after its first i characters, and without its i-th
\* character.
InsertAt(text, i, c) ==
    SubSeq(text, 1, i) \o <<c>> \o SubSeq(text, i + 1, Len(text))

RemoveAt(text, i) ==
    SubSeq(text, 1, i - 1) \o SubSeq(text, i + 1, Len(text))

SwapCase(c) ==
    CASE c = "a" -> "A"
      [] c = "A" -> "a"
      [] OTHER   -> c

TextInit ==
    /\ ProgramIdle
    /\ \E t \in Texts : texts = [x |-> t, y |-> t]
    /\ normalized = NoArgs
    /\ hashArgs = NoArgs
    /\ historyArgs = NoArgs
    /\ hashes = NoArgs
    /\ dateArgs = NoArgs
    /\ eventDate = NoArgs
    /\ cardArgs = NoArgs
    /\ card = NoArgs

\* The variant becomes text.
Vary(text) ==
    /\ ~normalized.done
    /\ texts' = [texts EXCEPT !.y = text]
    /\ UNCHANGED <<normalized, hashArgs, hashes, dateArgs, eventDate, cardArgs, card,
                   historyArgs>>
    /\ UNCHANGED <<serviceVars, clientVars>>

\* A letter of the variant changes its case.
ChangeCase(i) ==
    /\ texts.y[i] # SwapCase(texts.y[i])
    /\ Vary([texts.y EXCEPT ![i] = SwapCase(texts.y[i])])

\* A punctuation or quote mark is put into the variant, anywhere.
InsertMark(i, c) ==
    /\ Len(texts.y) <= MaxTextLen
    /\ Vary(InsertAt(texts.y, i, c))

\* A punctuation or quote mark is taken out of the variant.
RemoveMark(i) ==
    /\ texts.y[i] \in Marks
    /\ Vary(RemoveAt(texts.y, i))

\* A whitespace is put in front of the variant or behind it.
PadWhitespace(c, front) ==
    /\ Len(texts.y) <= MaxTextLen
    /\ Vary(IF front THEN <<c>> \o texts.y ELSE Append(texts.y, c))

\* A whitespace is taken from the front or the end of the variant.
UnpadWhitespace(front) ==
    LET i == IF front THEN 1 ELSE Len(texts.y)
    IN  /\ texts.y # <<>>
        /\ texts.y[i] \in Spaces
        /\ Vary(RemoveAt(texts.y, i))

\* A whitespace run inside the variant becomes longer by one.
StretchRun(i, c) ==
    /\ Len(texts.y) <= MaxTextLen
    /\ i > 1 /\ i < Len(texts.y)
    /\ texts.y[i] \in Spaces
    /\ Vary(InsertAt(texts.y, i, c))

\* A whitespace run inside the variant becomes shorter by one, not empty.
ShrinkRun(i) ==
    /\ i > 1 /\ i + 1 < Len(texts.y)
    /\ texts.y[i] \in Spaces /\ texts.y[i + 1] \in Spaces
    /\ Vary(RemoveAt(texts.y, i))

\* normalizeText is called for the text and for the variant, and again
\* for what it made of the text.
NormalizeText ==
    /\ ~normalized.done
    /\ normalized' = [done |-> TRUE,
                      x |-> normalizeText(texts.x),
                      y |-> normalizeText(texts.y),
                      twice |-> normalizeText(normalizeText(texts.x))]
    /\ UNCHANGED <<texts, hashArgs, hashes, dateArgs, eventDate, cardArgs, card,
                   historyArgs>>
    /\ UNCHANGED <<serviceVars, clientVars>>

TextNext ==
    \/ \E i \in DOMAIN texts.y : ChangeCase(i)
    \/ \E i \in 0..Len(texts.y), c \in Marks : InsertMark(i, c)
    \/ \E i \in DOMAIN texts.y : RemoveMark(i)
    \/ \E c \in Spaces, front \in BOOLEAN : PadWhitespace(c, front)
    \/ \E front \in BOOLEAN : UnpadWhitespace(front)
    \/ \E i \in DOMAIN texts.y, c \in Spaces : StretchRun(i, c)
    \/ \E i \in DOMAIN texts.y : ShrinkRun(i)
    \/ NormalizeText

SpecText == TextInit /\ [][TextNext]_vars

\* C8: normalizeText is idempotent: normalising what it returned gives the
\* same string again.
C8_NormalizeIdempotent ==
    normalized.done => normalized.twice = normalized.x

\* C9: two texts that differ only in letter case, in leading or trailing
\* whitespace, in the length of inner whitespace runs, or by punctuation
\* and quote marks put in or taken out, normalise to the same string and
\* get the same fingerprint.
C9_VariantsNormaliseEqual ==
    normalized.done =>
        /\ normalized.x = normalized.y
        /\ generateEventHash(EventHashData(texts.x, Null, Null, Null))
              = generateEventHash(EventHashData(texts.y, Null, Null, Null))

(***************************************************************************)
(* createEventVCard: the date of an event without startDateISO, resolved   *)
(* from its date phrase and the current date.  A date is a calendar date   *)
(* of the local time zone, its month counted from 0 as getMonth does.      *)
(***************************************************************************)
\* The day that days are counted from: 1 January 2023, a Sunday (getDay 0).
Epoch == [year |-> 2023, day |-> 0]

\* The number of years, from that of Epoch on, that "today" is drawn from.
NumYears == 2

IsLeapYear(y) == (y % 4 = 0 /\ y % 100 # 0) \/ y % 400 = 0

DaysInMonth(y, m) ==
    CASE m = 1              -> IF IsLeapYear(y) THEN 29 ELSE 28
      [] m \in {3, 5, 8, 10} -> 30
      [] OTHER              -> 31

CalendarDate(y, m, d) == [year |-> y, month |-> m, date |-> d]

\* new Date(year, month, day), setMonth and setDate: a month outside
\* 0..11 and a day outside the month carry over.
RECURSIVE MakeDate(_, _, _)
MakeDate(y, m, d) ==
    IF m > 11 THEN MakeDate(y + 1, m - 12, d)
    ELSE IF m < 0 THEN MakeDate(y - 1, m + 12, d)
    ELSE IF d > DaysInMonth(y, m) THEN MakeDate(y, m + 1, d - DaysInMonth(y, m))
    ELSE IF d < 1
    THEN LET py == IF m = 0 THEN y - 1 ELSE y
             pm == IF m = 0 THEN 11 ELSE m - 1
         IN  MakeDate(py, pm, d + DaysInMonth(py, pm))
    ELSE CalendarDate(y, m, d)

setDate(date, d) == MakeDate(date.year, date.month, d)
setMonth(date, m) == MakeDate(date.year, m, date.date)

\* The days from Epoch to date.
RECURSIVE DaysBeforeYear(_)
DaysBeforeYear(y) ==
    IF y <= Epoch.year THEN 0
    ELSE DaysBeforeYear(y - 1) + (IF IsLeapYear(y - 1) THEN 366 ELSE 365)

RECURSIVE DaysBeforeMonth(_, _)
DaysBeforeMonth(y, m) ==
    IF m = 0 THEN 0 ELSE DaysBeforeMonth(y, m - 1) + DaysInMonth(y, m - 1)

DayNumber(date) ==
    DaysBeforeYear(date.year) + DaysBeforeMonth(date.year, date.month)
    + date.date - 1

\* Date.prototype.getDay: 0 for Sunday to 6 for Saturday.
getDay(date) == (DayNumber(date) + Epoch.day) % 7

\* The dates "today" is drawn from.
ReferenceYears == Epoch.year..(Epoch.year + NumYears - 1)

ReferenceDates ==
    {date \in {CalendarDate(y, m, d) :
                 y \in ReferenceYears, m \in 0..11, d \in 1..31} :
        date.date <= DaysInMonth(date.year, date.month)}

\* The words of date phrases.  A phrase is the sequence of its words, and
\* includes(word) holds when the word is one of them.
dayNames ==
    <<"sunday", "monday", "tuesday", "wednesday", "thursday", "friday",
      "saturday">>

monthNames ==
    <<"january", "february", "march", "april", "may", "june", "july",
      "august", "september", "october", "november", "december">>

hebrewDays ==
    <<"ראשון", "שני", "שלישי", "רביעי", "חמישי", "שישי", "שבת">>

\* Words that match (\d{1,2})[\/\.](\d{1,2})[\/\.](\d{2,4}), with the
\* numbers of the three groups.
AbsoluteDates ==
    ("25/12/2024" :> <<25, 12, 2024>>) @@ ("25.12.24" :> <<25, 12, 24>>)
    @@ ("25/12/24" :> <<25, 12, 24>>) @@ ("1/2/2023" :> <<1, 2, 2023>>)
    @@ ("29.2.2024" :> <<29, 2, 2024>>) @@ ("5/1/99" :> <<5, 1, 99>>)
    @@ ("1/1/100" :> <<1, 1, 100>>) @@ ("31/12/9999" :> <<31, 12, 9999>>)

\* Words that match \d{1,2}, with their numbers.
DayNumbers == ("3" :> 3) @@ ("15" :> 15) @@ ("31" :> 31)

\* toLowerCase of a word.
Capitalised ==
    ("Friday" :> "friday") @@ ("Next" :> "next") @@ ("PM" :> "pm")

WordToLowerCase(w) == IF w \in DOMAIN Capitalised THEN Capitalised[w] ELSE w

PhraseToLowerCase(phrase) ==
    [i \in DOMAIN phrase |-> WordToLowerCase(phrase[i])]

Range(seq) == {seq[i] : i \in DOMAIN seq}

\* The first position of a word of set in the phrase, 0 when there is none.
FirstOf(dateStr, set) ==
    IF \E i \in DOMAIN dateStr : dateStr[i] \in set
    THEN CHOOSE i \in DOMAIN dateStr :
            /\ dateStr[i] \in set
            /\ \A j \in 1..(i - 1) : dateStr[j] \notin set
    ELSE 0

\* names.findIndex(name => dateStr.includes(name)), and the loops that
\* stop at the first name the phrase includes: -1 when there is none.
findIndex(names, dateStr) ==
    IF \E n \in DOMAIN names : Includes(dateStr, names[n])
    THEN (CHOOSE n \in DOMAIN names :
            /\ Includes(dateStr, names[n])
            /\ \A k \in 1..(n - 1) : ~Includes(dateStr, names[k])) - 1
    ELSE -1

\* The phrase has a word that matches the pattern of an absolute date.
absoluteDateMatch(dateStr) == FirstOf(dateStr, DOMAIN AbsoluteDates) # 0

\* The phrase matches "\d{1,2} <month name>".
monthNameMatch(dateStr) ==
    \E i \in 1..(Len(dateStr) - 1) :
        dateStr[i] \in DOMAIN DayNumbers /\ dateStr[i + 1] \in Range(monthNames)

\* The phrase matches an English weekday name.
weekdayMatch(dateStr) == \E i \in DOMAIN dateStr : dateStr[i] \in Range(dayNames)

\* The phrase matches "יום <weekday name>".
hebrewWeekdayMatch(dateStr) ==
    \E i \in 1..(Len(dateStr) - 1) :
        dateStr[i] = "יום" /\ dateStr[i + 1] \in Range(hebrewDays)

\* daysToAdd of the English weekday branch, with a same-day weekday left
\* at the current date.
daysToAdd_sameDayStays(targetDay, currentDay, dateStr) ==
    LET difference == targetDay - currentDay
    IN  IF Includes(dateStr, "next") THEN difference + 7
        ELSE IF difference < 0 /\ ~Includes(dateStr, "today")
        THEN difference + 7
        ELSE difference

\* daysToAdd of the English weekday branch.
daysToAdd(targetDay, currentDay, dateStr) ==
    LET difference == targetDay - currentDay
    IN  IF Includes(dateStr, "next") THEN difference + 7
        ELSE IF difference <= 0 /\ ~Includes(dateStr, "today")
        THEN difference + 7
        ELSE difference

\* daysToAdd of the Hebrew weekday branch, with the words for next and
\* upcoming not looked at.
hebrewDaysToAdd_noModifier(targetDay, currentDay, dateStr) ==
    LET difference == targetDay - currentDay
    IN  IF difference <= 0 THEN difference + 7 ELSE difference

\* daysToAdd of the Hebrew weekday branch.
hebrewDaysToAdd(targetDay, currentDay, dateStr) ==
    LET difference == targetDay - currentDay
    IN  IF Includes(dateStr, "הבא") \/ Includes(dateStr, "הקרוב")
        THEN difference + 7
        ELSE IF difference <= 0 THEN difference + 7
        ELSE difference

\* The absolute date branch with the first group read as the month.
absoluteDate_monthFirst(match) ==
    LET day == match[2]
        month == match[1] - 1
        year == match[3]
    IN  MakeDate(IF year < 100 THEN year + 2000 ELSE year, month, day)

\* The absolute date branch: the groups are day, month and year, a year
\* below 100 is a year of the 2000s.
absoluteDate(match) ==
    LET day == match[1]
        month == match[2] - 1
        year == match[3]
    IN  MakeDate(IF year < 100 THEN year + 2000 ELSE year, month, day)

\* The date parsing with "tomorrow" tested before the weekday names.
parseDate_tomorrowFirst(today, date) ==
    IF date = Null \/ date = <<>> THEN today
    ELSE LET dateStr == PhraseToLowerCase(date)
         IN  IF absoluteDateMatch(dateStr)
             THEN absoluteDate(AbsoluteDates[
                      dateStr[FirstOf(dateStr, DOMAIN AbsoluteDates)]])
             ELSE IF monthNameMatch(dateStr)
             THEN LET i == findIndex(monthNames, dateStr)
                      day == DayNumbers[
                          dateStr[FirstOf(dateStr, DOMAIN DayNumbers)]]
                  IN  setDate(setMonth(today, i), day)
             ELSE IF Includes(dateStr, "tomorrow")
             THEN setDate(today, today.date + 1)
             ELSE IF weekdayMatch(dateStr)
             THEN LET targetDay == findIndex(dayNames, dateStr)
                  IN  setDate(today,
                              today.date
                              + daysToAdd(targetDay, getDay(today), dateStr))
             ELSE IF hebrewWeekdayMatch(dateStr)
             THEN LET targetDay == findIndex(hebrewDays, dateStr)
                  IN  setDate(today,
                              today.date
                              + hebrewDaysToAdd(targetDay, getDay(today),
                                                dateStr))
             ELSE today

\* eventDate of createEventVCard after the date phrase has been parsed;
\* date is eventDetails.date, Null or empty when the event has none.
parseDate(today, date) ==
    IF date = Null \/ date = <<>> THEN today
    ELSE LET dateStr == PhraseToLowerCase(date)
         IN  IF absoluteDateMatch(dateStr)
             THEN absoluteDate(AbsoluteDates[
                      dateStr[FirstOf(dateStr, DOMAIN AbsoluteDates)]])
             ELSE IF monthNameMatch(dateStr)
             THEN LET i == findIndex(monthNames, dateStr)
                      day == DayNumbers[
                          dateStr[FirstOf(dateStr, DOMAIN DayNumbers)]]
                  IN  setDate(setMonth(today, i), day)
             ELSE IF weekdayMatch(dateStr)
             THEN LET targetDay == findIndex(dayNames, dateStr)
                  IN  setDate(today,
                              today.date
                              + daysToAdd(targetDay, getDay(today), dateStr))
             ELSE IF hebrewWeekdayMatch(dateStr)
             THEN LET targetDay == findIndex(hebrewDays, dateStr)
                  IN  setDate(today,
                              today.date
                              + hebrewDaysToAdd(targetDay, getDay(today),
                                                dateStr))
             ELSE IF Includes(dateStr, "tomorrow")
             THEN setDate(today, today.date + 1)
             ELSE today

\* The date phrases: up to MaxPhraseLen words.
MaxPhraseLen == 2

PhraseWords ==
    Range(dayNames) \cup {"Friday", "next", "today", "tomorrow", "on"}

EnglishPhrases == UNION { [1..n -> PhraseWords] : n \in 1..MaxPhraseLen }

\* Hebrew weekday phrases: "יום" and the name of the day, alone or with a
\* word for next, for upcoming, or with "today" or "tomorrow".
HebrewModifiers == {"הבא", "הקרוב"}

HebrewPhrases ==
    {<<"יום", d>> : d \in Range(hebrewDays)}
    \cup {<<"יום", d, w>> :
             d \in Range(hebrewDays),
             w \in HebrewModifiers \cup {"today", "tomorrow"}}

\* Phrases with an absolute date or with a day and a month name, alone,
\* together, and with a word of a later category before or after.
MonthWords == {"january", "february", "april", "december"}
LaterWords == {"friday", "tomorrow", "today"}

NumericPhrases ==
    LET dates == {<<a>> : a \in DOMAIN AbsoluteDates}
                 \cup {<<n, mth>> : n \in DOMAIN DayNumbers, mth \in MonthWords}
    IN  dates
        \cup {<<w>> \o d : w \in LaterWords, d \in dates}
        \cup {d \o <<w>> : w \in LaterWords, d \in dates}
        \cup {<<"15", "february", a>> : a \in DOMAIN AbsoluteDates}
        \cup {<<"february", "15">>, <<"15">>, <<"february">>}

Phrases == EnglishPhrases \cup HebrewPhrases \cup NumericPhrases

DateInit ==
    /\ ProgramIdle
    /\ \E today \in ReferenceDates, date \in Phrases \cup {Null} :
          dateArgs = [today |-> today, date |-> date]
    /\ eventDate = NoArgs
    /\ hashArgs = NoArgs
    /\ historyArgs = NoArgs
    /\ hashes = NoArgs
    /\ texts = NoArgs
    /\ normalized = NoArgs
    /\ cardArgs = NoArgs
    /\ card = NoArgs

\* createEventVCard resolves the date of the event.
ParseDate ==
    /\ ~eventDate.done
    /\ eventDate' = [done |-> TRUE,
                     value |-> parseDate(dateArgs.today, dateArgs.date)]
    /\ UNCHANGED <<dateArgs, hashArgs, hashes, texts, normalized, cardArgs, card,
                   historyArgs>>
    /\ UNCHANGED <<serviceVars, clientVars>>

SpecDate == DateInit /\ [][ParseDate]_vars

\* The English weekdays a phrase names, as getDay counts them.
NamedWeekdays(date) ==
    {n - 1 : n \in {k \in DOMAIN dayNames :
                        Includes(PhraseToLowerCase(date), dayNames[k])}}

\* The phrase reaches the weekday rule with no "next" and no "today".
PlainWeekdayPhrase(date) ==
    /\ NamedWeekdays(date) # {}
    /\ ~Includes(PhraseToLowerCase(date), "next")
    /\ ~Includes(PhraseToLowerCase(date), "today")
    /\ ~absoluteDateMatch(PhraseToLowerCase(date))
    /\ ~monthNameMatch(PhraseToLowerCase(date))

\* The days from the reference date to the resolved date.
DaysAhead == DayNumber(eventDate.value) - DayNumber(dateArgs.today)

\* C10: a phrase that names an English weekday, with no "next" and no
\* "today", resolves to the first date strictly after the reference date
\* that falls on that weekday, 1 to 7 days ahead: 7 days ahead when the
\* reference date is itself that weekday.
C10_NextOccurrenceOfWeekday ==
    (eventDate.done /\ PlainWeekdayPhrase(dateArgs.date)) =>
        /\ DaysAhead \in 1..7
        /\ getDay(eventDate.value) \in NamedWeekdays(dateArgs.date)
        /\ (NamedWeekdays(dateArgs.date) = {getDay(dateArgs.today)})
              => DaysAhead = 7

\* On Tuesday 27 February 2024 the phrase "tuesday" has been resolved: to
\* 5 March 2024, the Tuesday after.
C10_Witness ==
    /\ eventDate.done
    /\ dateArgs.today = CalendarDate(2024, 1, 27)
    /\ getDay(dateArgs.today) = 2
    /\ dateArgs.date = <<"tuesday">>
    /\ PlainWeekdayPhrase(dateArgs.date)
    /\ eventDate.value = CalendarDate(2024, 2, 5)

\* The Hebrew weekdays a phrase names, as getDay counts them.
NamedHebrewWeekdays(date) ==
    {n - 1 : n \in {k \in DOMAIN hebrewDays :
                        Includes(PhraseToLowerCase(date), hebrewDays[k])}}

\* No rule that comes before the weekday rules takes the phrase.
NoNumericDate(date) ==
    /\ ~absoluteDateMatch(PhraseToLowerCase(date))
    /\ ~monthNameMatch(PhraseToLowerCase(date))

\* The phrase reaches the English weekday rule, the Hebrew one.
EnglishWeekdayPhrase(date) ==
    NoNumericDate(date) /\ NamedWeekdays(date) # {}

HebrewWeekdayPhrase(date) ==
    /\ NoNumericDate(date)
    /\ NamedWeekdays(date) = {}
    /\ hebrewWeekdayMatch(PhraseToLowerCase(date))

\* The phrase names one weekday and carries a word for next or upcoming
\* of its language.
NextWeekdayPhrase(date) ==
    \/ /\ EnglishWeekdayPhrase(date)
       /\ Cardinality(NamedWeekdays(date)) = 1
       /\ Includes(PhraseToLowerCase(date), "next")
    \/ /\ HebrewWeekdayPhrase(date)
       /\ Cardinality(NamedHebrewWeekdays(date)) = 1
       /\ \E w \in HebrewModifiers : Includes(date, w)

\* The weekday that a phrase with one weekday names.
TargetWeekday(date) ==
    CHOOSE t \in 0..6 :
        IF NamedWeekdays(date) # {} THEN NamedWeekdays(date) = {t}
        ELSE NamedHebrewWeekdays(date) = {t}

\* C11: a weekday phrase with a next or upcoming modifier ("next", "הבא",
\* "הקרוב") resolves to the reference date + (target weekday - reference
\* weekday) + 7 days, for every pair of weekdays; 7 days when they are
\* the same.
C11_NextAddsSeven ==
    (eventDate.done /\ NextWeekdayPhrase(dateArgs.date)) =>
        DaysAhead
           = TargetWeekday(dateArgs.date) - getDay(dateArgs.today) + 7

\* On Monday 30 December 2024 the phrase "יום שישי הבא" has been resolved:
\* to Friday 10 January 2025, 4 + 7 days on.
C11_Witness ==
    /\ eventDate.done
    /\ dateArgs.today = CalendarDate(2024, 11, 30)
    /\ dateArgs.date = <<"יום", "שישי", "הבא">>
    /\ NextWeekdayPhrase(dateArgs.date)
    /\ eventDate.value = CalendarDate(2025, 0, 10)

\* The phrase reaches a weekday rule, says "today" and has no word for
\* next or upcoming.
TodayWeekdayPhrase(date) ==
    /\ EnglishWeekdayPhrase(date) \/ HebrewWeekdayPhrase(date)
    /\ Includes(PhraseToLowerCase(date), "today")
    /\ ~Includes(PhraseToLowerCase(date), "next")
    /\ \A w \in HebrewModifiers : ~Includes(date, w)

\* C12: a weekday phrase that contains "today" and no next modifier
\* resolves to the reference date itself, whatever weekday it names.
C12_TodayKeepsReferenceDate ==
    (eventDate.done /\ TodayWeekdayPhrase(dateArgs.date)) => DaysAhead = 0

\* The English phrase that says what a Hebrew weekday phrase says: the
\* same weekday, "next" for "הבא" and for "הקרוב", "today" for "today".
EnglishFor(date) ==
    LET day == dayNames[TargetWeekday(date) + 1]
    IN  IF Len(date) = 2 THEN <<day>>
        ELSE IF date[3] \in HebrewModifiers THEN <<"next", day>>
        ELSE <<day, date[3]>>

\* A Hebrew weekday phrase in one of the three modifier states: none, next
\* or upcoming, "today" present.
HebrewInModifierState(date) ==
    /\ date \in HebrewPhrases
    /\ Len(date) = 3 => date[3] \in HebrewModifiers \cup {"today"}

\* C13: for every weekday, reference date and modifier state (none, next or
\* upcoming, "today" present) a Hebrew weekday phrase resolves to the date
\* the English phrase for it resolves to.
C13_HebrewAsEnglish ==
    (eventDate.done /\ HebrewInModifierState(dateArgs.date)) =>
        eventDate.value = parseDate(dateArgs.today, EnglishFor(dateArgs.date))

\* The first category, in the order absolute date, month name and day,
\* weekday name, "tomorrow", "today", that a date phrase matches.
DateCategory(date) ==
    IF date = Null THEN "none"
    ELSE LET dateStr == PhraseToLowerCase(date)
         IN  IF absoluteDateMatch(dateStr) THEN "absolute"
             ELSE IF monthNameMatch(dateStr) THEN "month"
             ELSE IF weekdayMatch(dateStr) \/ hebrewWeekdayMatch(dateStr)
             THEN "weekday"
             ELSE IF Includes(dateStr, "tomorrow") THEN "tomorrow"
             ELSE IF Includes(dateStr, "today") THEN "today"
             ELSE "none"

\* The phrase names one weekday, English or Hebrew.
OneWeekdayNamed(date) ==
    IF NamedWeekdays(date) # {} THEN Cardinality(NamedWeekdays(date)) = 1
    ELSE Cardinality(NamedHebrewWeekdays(date)) = 1

\* The date that the rule of the phrase's first category alone gives.
DecidedByFirstCategory ==
    LET date == dateArgs.date
        today == dateArgs.today
        dateStr == PhraseToLowerCase(date)
        value == eventDate.value
    IN  CASE DateCategory(date) = "absolute" ->
               value = absoluteDate(AbsoluteDates[
                           dateStr[FirstOf(dateStr, DOMAIN AbsoluteDates)]])
          [] DateCategory(date) = "month" ->
               value = setDate(setMonth(today, findIndex(monthNames, dateStr)),
                               DayNumbers[
                                   dateStr[FirstOf(dateStr, DOMAIN DayNumbers)]])
          [] DateCategory(date) = "weekday" ->
               OneWeekdayNamed(date) =>
                   /\ getDay(value) = TargetWeekday(date)
                   /\ DaysAhead \in -6..13
          [] DateCategory(date) = "tomorrow" -> DaysAhead = 1
          [] OTHER -> value = today

\* C14: the categories of date phrases are tried in the order absolute
\* date, month name and day, weekday name, "tomorrow", "today", and the
\* first one that matches decides alone; "tomorrow" gives the reference date
\* + 1 day; "today", no phrase and a phrase of no category give the
\* reference date.
C14_FirstCategoryDecides ==
    eventDate.done => DecidedByFirstCategory

\* On Monday 2 January 2023 the phrase "friday tomorrow" has been resolved
\* by the weekday rule, to Friday 6 January.
C14_Witness ==
    /\ eventDate.done
    /\ dateArgs.today = CalendarDate(2023, 0, 2)
    /\ dateArgs.date = <<"friday", "tomorrow">>
    /\ DateCategory(dateArgs.date) = "weekday"
    /\ eventDate.value = CalendarDate(2023, 0, 6)

\* The groups D, M and Y of the absolute date in a phrase.
AbsoluteGroups(date) ==
    LET dateStr == PhraseToLowerCase(date)
    IN  AbsoluteDates[dateStr[FirstOf(dateStr, DOMAIN AbsoluteDates)]]

\* The year that Y stands for: 2000 + Y below 100, else Y itself.
YearOf(y) == IF y < 100 THEN 2000 + y ELSE y

\* Day d of month m (1 to 12) of year y is a date of the calendar.
IsCalendarDate(y, m, d) ==
    m \in 1..12 /\ d >= 1 /\ d <= DaysInMonth(y, m - 1)

NamedMonth(date) == findIndex(monthNames, PhraseToLowerCase(date))

NamedDay(date) ==
    LET dateStr == PhraseToLowerCase(date)
    IN  DayNumbers[dateStr[FirstOf(dateStr, DOMAIN DayNumbers)]]

\* C16: a date phrase of an English month name and a day number resolves
\* to that day of that month in the year of the reference date, for every
\* reference date, also one whose day of the month the named month does not
\* have (reference 31 January, phrase "15 February").
C16_MonthNameAndDay ==
    (/\ eventDate.done
     /\ DateCategory(dateArgs.date) = "month"
     /\ IsCalendarDate(dateArgs.today.year, NamedMonth(dateArgs.date) + 1,
                       NamedDay(dateArgs.date))) =>
        eventDate.value = CalendarDate(dateArgs.today.year,
                                       NamedMonth(dateArgs.date),
                                       NamedDay(dateArgs.date))

(***************************************************************************)
(* The calendar records: createEventVCard of the whatsapp-web.js client    *)
(* and createEventVCalendar of the Baileys client, called on their own.    *)
(***************************************************************************)
\* A Date: a calendar date and the minutes since its midnight.  Instants
\* are counted in minutes from the midnight of Epoch; the offset of the
\* host's time zone is the same for every Date and is left out.
MinutesPerDay == 24 * 60

DateTime(date, minutes) == [date |-> date, minutes |-> minutes]

getTime(dateTime) == DayNumber(dateTime.date) * MinutesPerDay + dateTime.minutes

getHours(dateTime) == dateTime.minutes \div 60

getMinutes(dateTime) == dateTime.minutes % 60

\* Date.prototype.setHours(hours, minutes, 0, 0): hours beyond 23 and
\* minutes beyond 59 carry over to the following days.
setHours(dateTime, hours, minutes) ==
    LET total == hours * 60 + minutes
    IN  DateTime(setDate(dateTime.date,
                         dateTime.date.date + total \div MinutesPerDay),
                 total % MinutesPerDay)

\* Words that match (\d{1,2})(?::(\d{2}))?, with the numbers of the
\* groups: the hours, and the minutes when the word has them.
ClockWords ==
    ("3" :> <<3>>) @@ ("8" :> <<8>>) @@ ("12" :> <<12>>) @@ ("25" :> <<25>>)
    @@ ("3pm" :> <<3>>) @@ ("15:00" :> <<15, 0>>) @@ ("9:30" :> <<9, 30>>)
    @@ ("23:59" :> <<23, 59>>)

\* Words that include "pm", words that include "am".
PmWords == {"pm", "3pm"}
AmWords == {"am"}

IncludesAny(timeStr, words) == \E i \in DOMAIN timeStr : timeStr[i] \in words

\* The hours after the AM/PM handling, with "pm" adding 12 to 12 as well.
resolveHours_pmAlways(hours, timeStr) ==
    IF IncludesAny(timeStr, PmWords) /\ hours <= 12 THEN hours + 12
    ELSE IF IncludesAny(timeStr, AmWords) /\ hours = 12 THEN 0
    ELSE hours

\* The hours after the AM/PM handling.
resolveHours(hours, timeStr) ==
    IF IncludesAny(timeStr, PmWords) /\ hours < 12 THEN hours + 12
    ELSE IF IncludesAny(timeStr, AmWords) /\ hours = 12 THEN 0
    ELSE hours

\* eventDate after the time phrase has been parsed; time is
\* eventDetails.time, Null or empty when the event has none.
parseTime(date, time) ==
    IF time = Null \/ time = <<>> THEN setHours(date, 8, 0)
    ELSE LET timeStr == PhraseToLowerCase(time)
             k == FirstOf(timeStr, DOMAIN ClockWords)
         IN  IF k # 0
             THEN LET timeMatch == ClockWords[timeStr[k]]
                      hours == timeMatch[1]
                      minutes == IF Len(timeMatch) = 2 THEN timeMatch[2] ELSE 0
                  IN  setHours(date, resolveHours(hours, timeStr), minutes)
             ELSE date

\* eventDate of the phrase path before the time is parsed: a copy of today
\* with the date of the phrase, midnight of the date for an absolute date.
dateOfPhrase(today, date) ==
    IF date # Null /\ date # <<>> /\ absoluteDateMatch(PhraseToLowerCase(date))
    THEN DateTime(parseDate(today.date, date), 0)
    ELSE DateTime(parseDate(today.date, date), today.minutes)

\* The ISO strings of the extraction service, with the Dates they parse to;
\* any other string parses to an invalid Date.
IsoEarlier == <<"2025-01-03T17:00:00.000Z">>

IsoYear10000 == <<"+010000-01-01T00:00:00.000Z">>

IsoDates ==
    (IsoValid[1] :> DateTime(CalendarDate(2025, 0, 3), 18 * 60))
    @@ (IsoEarlier[1] :> DateTime(CalendarDate(2025, 0, 3), 17 * 60))
    @@ (IsoYear10000[1] :> DateTime(CalendarDate(10000, 0, 1), 0))

Truthy(string) == string # Null /\ string # <<>>

IsInvalidDate(iso) == iso[1] \notin DOMAIN IsoDates

NewDate(iso) == IsoDates[iso[1]]

\* A calendar record: the function that made it, whether it threw, the
\* lines DTSTART and DTEND it has and their instants.
CalendarRecord(by, path, start, end) ==
    [done |-> TRUE, by |-> by, path |-> path, threw |-> FALSE,
     hasStart |-> start # <<>>, hasEnd |-> end # <<>>,
     DTSTART |-> IF start # <<>> THEN start[1] ELSE 0,
     DTEND |-> IF end # <<>> THEN end[1] ELSE 0]

\* The end of the phrase path at 9 o'clock of the day of the event.
phraseEnd_nineOClock(date) == getTime(setHours(date, 9, 0))

\* The end of the phrase path: eventDate.getTime() + 60 * 60 * 1000.
phraseEnd(date) == getTime(date) + 60

\* createEventVCard reading the phrases whenever there is a date phrase.
createEventVCard_phrasesFirst(now, eventDetails) ==
    LET startDateISO == eventDetails.startDateISO
        endDateISO == eventDetails.endDateISO
        stamp == <<getTime(now)>>
    IN  IF Truthy(startDateISO) /\ ~Truthy(eventDetails.date)
        THEN IF IsInvalidDate(startDateISO)
             THEN CalendarRecord("createEventVCard", "catch", stamp, stamp)
             ELSE LET startDate == getTime(NewDate(startDateISO))
                  IN  IF ~Truthy(endDateISO)
                      THEN CalendarRecord("createEventVCard", "iso",
                                          <<startDate>>, <<startDate + 60>>)
                      ELSE IF IsInvalidDate(endDateISO)
                      THEN CalendarRecord("createEventVCard", "catch",
                                          <<startDate>>, stamp)
                      ELSE CalendarRecord("createEventVCard", "iso",
                                          <<startDate>>,
                                          <<getTime(NewDate(endDateISO))>>)
        ELSE LET date == parseTime(dateOfPhrase(now, eventDetails.date),
                                   eventDetails.time)
             IN  CalendarRecord("createEventVCard", "phrase",
                                <<getTime(date)>>, <<phraseEnd(date)>>)
                 @@ ("eventDate" :> date)

\* WhatsAppClient.createEventVCard at the time now.  A statement that
\* throws leaves startDate and endDate as they are at that point.
createEventVCard(now, eventDetails) ==
    LET startDateISO == eventDetails.startDateISO
        endDateISO == eventDetails.endDateISO
        stamp == <<getTime(now)>>
    IN  IF Truthy(startDateISO)
        THEN IF IsInvalidDate(startDateISO)
             THEN CalendarRecord("createEventVCard", "catch", stamp, stamp)
             ELSE LET startDate == getTime(NewDate(startDateISO))
                  IN  IF ~Truthy(endDateISO)
                      THEN CalendarRecord("createEventVCard", "iso",
                                          <<startDate>>, <<startDate + 60>>)
                      ELSE IF IsInvalidDate(endDateISO)
                      THEN CalendarRecord("createEventVCard", "catch",
                                          <<startDate>>, stamp)
                      ELSE CalendarRecord("createEventVCard", "iso",
                                          <<startDate>>,
                                          <<getTime(NewDate(endDateISO))>>)
        ELSE LET date == parseTime(dateOfPhrase(now, eventDetails.date),
                                   eventDetails.time)
             IN  CalendarRecord("createEventVCard", "phrase",
                                <<getTime(date)>>, <<phraseEnd(date)>>)
                 @@ ("eventDate" :> date)

\* createEventVCalendar of the Baileys client: a line for each ISO string
\* the event has; toISOString throws on an invalid Date.
createEventVCalendar(eventDetails) ==
    LET startDateISO == eventDetails.startDateISO
        endDateISO == eventDetails.endDateISO
    IN  IF \/ Truthy(startDateISO) /\ IsInvalidDate(startDateISO)
           \/ Truthy(endDateISO) /\ IsInvalidDate(endDateISO)
        THEN [CalendarRecord("createEventVCalendar", "iso", <<>>, <<>>)
                EXCEPT !.threw = TRUE]
        ELSE CalendarRecord(
                 "createEventVCalendar", "iso",
                 IF Truthy(startDateISO)
                 THEN <<getTime(NewDate(startDateISO))>> ELSE <<>>,
                 IF Truthy(endDateISO)
                 THEN <<getTime(NewDate(endDateISO))>> ELSE <<>>)

\* The inputs: the date and the time of day of the call, the phrases and
\* the ISO strings of the event.
CardDates ==
    {CalendarDate(2023, 0, 4), CalendarDate(2023, 0, 31),
     CalendarDate(2024, 1, 28), CalendarDate(2024, 11, 31)}

WallClocks == {0, 8 * 60, 14 * 60 + 37, 23 * 60 + 30}

CardDatePhrases ==
    {Null, <<"today">>, <<"tomorrow">>, <<"friday">>, <<"on">>,
     <<"25/12/2024">>, <<"15", "february">>, <<"יום", "שישי", "הבא">>}

TimePhrases ==
    {Null, <<>>, <<"8">>, <<"12">>, <<"3", "pm">>, <<"3", "PM">>,
     <<"3", "am">>, <<"12", "am">>, <<"12", "pm">>, <<"at", "3pm">>,
     <<"15:00">>, <<"15:00", "pm">>, <<"9:30", "am">>, <<"23:59">>,
     <<"25">>, <<"evening">>}

IsoStrings == {Null, IsoInvalid, IsoValid, IsoEarlier}

CardDetails(date, time, startDateISO, endDateISO) ==
    [EventDetails(TRUE, Summary, EventHashData(Null, date, time, Null),
                  startDateISO)
       EXCEPT !.endDateISO = endDateISO]

CardInit ==
    /\ ProgramIdle
    /\ \E today \in CardDates, clock_ \in WallClocks,
          date \in CardDatePhrases, time \in TimePhrases,
          startDateISO \in IsoStrings, endDateISO \in IsoStrings :
          cardArgs = [now |-> DateTime(today, clock_),
                      eventDetails |-> CardDetails(date, time, startDateISO,
                                                   endDateISO)]
    /\ card = NoArgs
    /\ hashArgs = NoArgs
    /\ historyArgs = NoArgs
    /\ hashes = NoArgs
    /\ texts = NoArgs
    /\ normalized = NoArgs
    /\ dateArgs = NoArgs
    /\ eventDate = NoArgs

CreateEventVCard ==
    /\ ~card.done
    /\ card' = createEventVCard(cardArgs.now, cardArgs.eventDetails)
    /\ UNCHANGED <<cardArgs, hashArgs, hashes, texts, normalized, dateArgs,
                   eventDate, historyArgs>>
    /\ UNCHANGED <<serviceVars, clientVars>>

CreateEventVCalendar ==
    /\ ~card.done
    /\ card' = createEventVCalendar(cardArgs.eventDetails)
    /\ UNCHANGED <<cardArgs, hashArgs, hashes, texts, normalized, dateArgs,
                   eventDate, historyArgs>>
    /\ UNCHANGED <<serviceVars, clientVars>>

CardNext == CreateEventVCard \/ CreateEventVCalendar

SpecCard == CardInit /\ [][CardNext]_vars

\* createEventVCard has made a record on the phrase path (the event has
\* no startDateISO).
ByPhrasePath ==
    card.done /\ card.by = "createEventVCard" /\ card.path = "phrase"

\* The time phrase of the event matches the clock-time pattern; the groups
\* H and MM of its match.
ClockMatch(time) ==
    Truthy(time) /\ FirstOf(PhraseToLowerCase(time), DOMAIN ClockWords) # 0

ClockGroups(time) ==
    LET timeStr == PhraseToLowerCase(time)
    IN  ClockWords[timeStr[FirstOf(timeStr, DOMAIN ClockWords)]]

\* H is an hour of the day and MM, when there, a minute of the hour.
IsClockTime(groups) ==
    groups[1] \in 0..23 /\ (Len(groups) = 2 => groups[2] \in 0..59)

\* The date that the date phrase of the event resolves to.
ResolvedDate ==
    parseDate(cardArgs.now.date, cardArgs.eventDetails.date)

\* C17: for a time phrase matching H[:MM] with an optional am/pm marker the
\* resolved hour is 0 with "am" and H = 12, H + 12 with "pm" and H < 12, and
\* H itself otherwise ("8" is hour 8, "3 PM" is hour 15); the resolved
\* minute is MM, or 0 when the minutes are missing.
C17_ClockTime ==
    (/\ ByPhrasePath
     /\ ClockMatch(cardArgs.eventDetails.time)
     /\ IsClockTime(ClockGroups(cardArgs.eventDetails.time))) =>
        LET time == PhraseToLowerCase(cardArgs.eventDetails.time)
            g == ClockGroups(time)
            H == g[1]
        IN  /\ getHours(card.eventDate)
                  = IF IncludesAny(time, AmWords) /\ H = 12 THEN 0
                    ELSE IF IncludesAny(time, PmWords) /\ H < 12 THEN H + 12
                    ELSE H
            /\ getMinutes(card.eventDate) = IF Len(g) = 2 THEN g[2] ELSE 0
            /\ card.eventDate.date = ResolvedDate
            /\ time = <<"8">> => getHours(card.eventDate) = 8
            /\ time = <<"3", "pm">> => getHours(card.eventDate) = 15

\* The time phrase "3 PM" has been resolved at 14:37 of 4 January 2023, to
\* 15:00 of that day.
C17_Witness ==
    /\ ByPhrasePath
    /\ cardArgs.now = DateTime(CalendarDate(2023, 0, 4), 14 * 60 + 37)
    /\ cardArgs.eventDetails.date = Null
    /\ cardArgs.eventDetails.time = <<"3", "PM">>
    /\ card.eventDate = DateTime(CalendarDate(2023, 0, 4), 15 * 60)

\* C18: when the time phrase is absent, or present but matching no
\* clock-time pattern, the start is 08:00 of the resolved date and the end
\* 09:00, whatever the time of day at which the record is made.
C18_DefaultEightOClock ==
    (ByPhrasePath /\ ~ClockMatch(cardArgs.eventDetails.time)) =>
        /\ card.eventDate = DateTime(ResolvedDate, 8 * 60)
        /\ card.DTSTART = getTime(DateTime(ResolvedDate, 8 * 60))
        /\ card.DTEND = getTime(DateTime(ResolvedDate, 9 * 60))

\* C19: on the phrase path of createEventVCard, for every date phrase and
\* time phrase (present, absent or unrecognised), DTEND is exactly 60
\* minutes after DTSTART.
C19_EndOneHourAfterStart ==
    ByPhrasePath =>
        card.hasStart /\ card.hasEnd /\ card.DTEND = card.DTSTART + 60

\* At 23:30 of 31 December 2024 an event with the time "23:59" and no date
\* has got a record from 23:59 to 00:59 of 1 January 2025.
C19_Witness ==
    /\ ByPhrasePath
    /\ cardArgs.now = DateTime(CalendarDate(2024, 11, 31), 23 * 60 + 30)
    /\ cardArgs.eventDetails.date = Null
    /\ cardArgs.eventDetails.time = <<"23:59">>
    /\ card.DTSTART = getTime(DateTime(CalendarDate(2024, 11, 31), 23 * 60 + 59))
    /\ card.DTEND = getTime(DateTime(CalendarDate(2025, 0, 1), 59))

\* C20: in every calendar record with both a DTSTART and a DTEND line,
\* from createEventVCard on the phrase path, on the ISO path and after a
\* caught parsing error, and from createEventVCalendar, DTEND is strictly
\* later than DTSTART.
C20_EndAfterStart ==
    (card.done /\ ~card.threw /\ card.hasStart /\ card.hasEnd) =>
        card.DTEND > card.DTSTART

(***************************************************************************)
(* The text of the calendar records: their lines, with the timestamps,     *)
(* the UID and the free-text fields as sequences of characters.            *)
(***************************************************************************)
\* A natural number in decimal, padded with zeros to a width.
RECURSIVE PadStart(_, _)
PadStart(digits, width) ==
    IF Len(digits) >= width THEN digits ELSE PadStart(<<"0">> \o digits, width)

\* Date.prototype.toISOString of a valid Date, in whole minutes: a year
\* from 0 to 9999 has four digits, any other year a sign and six digits.
toISOString(dateTime) ==
    LET year == dateTime.date.year
        yyyy == IF year \in 0..9999 THEN PadStart(NumberToString(year), 4)
                ELSE IF year < 0
                THEN <<"-">> \o PadStart(NumberToString(0 - year), 6)
                ELSE <<"+">> \o PadStart(NumberToString(year), 6)
    IN  yyyy \o <<"-">>
        \o PadStart(NumberToString(dateTime.date.month + 1), 2) \o <<"-">>
        \o PadStart(NumberToString(dateTime.date.date), 2) \o <<"T">>
        \o PadStart(NumberToString(getHours(dateTime)), 2) \o <<":">>
        \o PadStart(NumberToString(getMinutes(dateTime)), 2) \o <<":">>
        \o <<"0", "0", ".", "0", "0", "0", "Z">>

\* split(separator)[0]: the text before the first separator.
RECURSIVE BeforeFirst(_, _)
BeforeFirst(text, separator) ==
    IF text = <<>> \/ Head(text) = separator THEN <<>>
    ELSE <<Head(text)>> \o BeforeFirst(Tail(text), separator)

\* toISOString().replace(/[-:]/g, '').split('.')[0] + 'Z'
compactTimestamp(dateTime) ==
    BeforeFirst(RemoveChars(toISOString(dateTime), {"-", ":"}), ".") \o <<"Z">>

\* new Date(date.getTime() + 60 * 60 * 1000)
addHour(dateTime) == setHours(dateTime, 0, dateTime.minutes + 60)

\* replace(/\n/g, '\\n'): a backslash and an n for every newline.
RECURSIVE escapeNewlines(_)
escapeNewlines(text) ==
    IF text = <<>> THEN <<>>
    ELSE (IF Head(text) = "\n" THEN <<"\\", "n">> ELSE <<Head(text)>>)
         \o escapeNewlines(Tail(text))

\* left || right
OrElse(left, right) == IF Truthy(left) THEN left ELSE right

\* A line of a record: its name and the text after the colon.
Line(name, value) == [name |-> name, value |-> value]

\* `event-${Date.now()}@domain`
Uid(millis, domain) == <<"event-">> \o NumberToString(millis) \o <<domain>>

\* startDate and endDate of createEventVCard.
vCardDates(now, eventDetails) ==
    LET startDateISO == eventDetails.startDateISO
        endDateISO == eventDetails.endDateISO
        stamp == compactTimestamp(now)
    IN  IF Truthy(startDateISO)
        THEN IF IsInvalidDate(startDateISO)
             THEN [startDate |-> stamp, endDate |-> stamp]
             ELSE LET startDate == compactTimestamp(NewDate(startDateISO))
                  IN  IF ~Truthy(endDateISO)
                      THEN [startDate |-> startDate,
                            endDate |-> compactTimestamp(
                                            addHour(NewDate(startDateISO)))]
                      ELSE IF IsInvalidDate(endDateISO)
                      THEN [startDate |-> startDate, endDate |-> stamp]
                      ELSE [startDate |-> startDate,
                            endDate |-> compactTimestamp(NewDate(endDateISO))]
        ELSE LET date == parseTime(dateOfPhrase(now, eventDetails.date),
                                   eventDetails.time)
             IN  [startDate |-> compactTimestamp(date),
                  endDate |-> compactTimestamp(addHour(date))]

\* The record createEventVCard returns at the time now, Date.now() being
\* millis.
vCardText(now, millis, eventDetails) ==
    LET dates == vCardDates(now, eventDetails)
    IN  [by |-> "createEventVCard", threw |-> FALSE,
         lines |->
           << Line("BEGIN", <<"VCALENDAR">>),
              Line("VERSION", <<"2.0">>),
              Line("PRODID", <<"-//WhatsApp-Me//Event//EN">>),
              Line("CALSCALE", <<"GREGORIAN">>),
              Line("METHOD", <<"PUBLISH">>),
              Line("BEGIN", <<"VEVENT">>),
              Line("DTSTAMP", compactTimestamp(now)),
              Line("DTSTART", dates.startDate),
              Line("DTEND", dates.endDate),
              Line("SUMMARY", OrElse(eventDetails.title, <<"Event">>)),
              Line("DESCRIPTION",
                   escapeNewlines(OrElse(eventDetails.description,
                                         OrElse(eventDetails.summary,
                                                <<"Event">>)))),
              Line("LOCATION", OrElse(eventDetails.location, <<>>)),
              Line("UID", Uid(millis, "@whatsapp-me.app")),
              Line("STATUS", <<"CONFIRMED">>),
              Line("SEQUENCE", <<"0">>),
              Line("TRANSP", <<"TRANSPARENT">>),
              Line("END", <<"VEVENT">>),
              Line("END", <<"VCALENDAR">>) >>]

\* The line of a field of createEventVCalendar that is there only when
\* the field is truthy.
OptionalLine(name, field, value) ==
    IF Truthy(field) THEN <<Line(name, value)>> ELSE <<>>

\* The record createEventVCalendar returns; it throws when an ISO string
\* is not a date.
vCalendarText(now, millis, eventDetails) ==
    LET startDateISO == eventDetails.startDateISO
        endDateISO == eventDetails.endDateISO
    IN  IF \/ Truthy(startDateISO) /\ IsInvalidDate(startDateISO)
           \/ Truthy(endDateISO) /\ IsInvalidDate(endDateISO)
        THEN [by |-> "createEventVCalendar", threw |-> TRUE, lines |-> <<>>]
        ELSE [by |-> "createEventVCalendar", threw |-> FALSE,
              lines |->
                << Line("BEGIN", <<"VCALENDAR">>),
                   Line("VERSION", <<"2.0">>),
                   Line("PRODID", <<"-//WhatsApp Event Bot//EN">>),
                   Line("BEGIN", <<"VEVENT">>),
                   Line("UID", Uid(millis, "@whatsapp-bot")),
                   Line("DTSTAMP", compactTimestamp(now)) >>
                \o (IF Truthy(startDateISO)
                    THEN <<Line("DTSTART",
                                compactTimestamp(NewDate(startDateISO)))>>
                    ELSE <<>>)
                \o (IF Truthy(endDateISO)
                    THEN <<Line("DTEND",
                                compactTimestamp(NewDate(endDateISO)))>>
                    ELSE <<>>)
                \o OptionalLine("SUMMARY", eventDetails.title,
                                escapeNewlines(eventDetails.title))
                \o OptionalLine("DESCRIPTION", eventDetails.description,
                                escapeNewlines(eventDetails.description))
                \o OptionalLine("LOCATION", eventDetails.location,
                                escapeNewlines(eventDetails.location))
                \o << Line("END", <<"VEVENT">>),
                      Line("END", <<"VCALENDAR">>) >>]

\* The records of one process: up to MaxRecords of them, made while the
\* millisecond clock goes on by up to MaxMillis.
MaxRecords == 2
MaxMillis == 1

\* The inputs: the free-text fields absent, plain and with a newline; a
\* date and a time phrase; the ISO strings.
FreeTexts == {Null, <<"a">>, <<"a", "\n", "b">>}

RecordDatePhrases == {Null, <<"25/12/2024">>, <<"31/12/9999">>}

RecordTimePhrases == {Null, <<"23:59">>, <<"evening">>}

RecordIsoStrings == {Null, IsoInvalid, IsoValid, IsoYear10000}

RecordDetails(title, description, location, date, time, startISO, endISO) ==
    [CardDetails(date, time, startISO, endISO)
       EXCEPT !.title = title, !.description = description,
              !.location = location]

RecordInit ==
    /\ ProgramIdle
    /\ \E title \in FreeTexts, description \in FreeTexts,
          location \in FreeTexts, date \in RecordDatePhrases,
          time \in RecordTimePhrases, startDateISO \in RecordIsoStrings,
          endDateISO \in RecordIsoStrings :
          cardArgs = [now |-> DateTime(CalendarDate(2024, 11, 25), 8 * 60),
                      millis |-> 0,
                      eventDetails |->
                          RecordDetails(title, description, location, date,
                                        time, startDateISO, endDateISO)]
    /\ card = [done |-> FALSE, records |-> <<>>]
    /\ hashArgs = NoArgs
    /\ historyArgs = NoArgs
    /\ hashes = NoArgs
    /\ texts = NoArgs
    /\ normalized = NoArgs
    /\ dateArgs = NoArgs
    /\ eventDate = NoArgs

WithRecord(record) == [done |-> TRUE, records |-> Append(card.records, record)]

WriteVCard ==
    /\ Len(card.records) < MaxRecords
    /\ card' = WithRecord(vCardText(cardArgs.now, cardArgs.millis,
                                    cardArgs.eventDetails))
    /\ UNCHANGED <<cardArgs, hashArgs, hashes, texts, normalized, dateArgs,
                   eventDate, historyArgs>>
    /\ UNCHANGED <<serviceVars, clientVars>>

WriteVCalendar ==
    /\ Len(card.records) < MaxRecords
    /\ card' = WithRecord(vCalendarText(cardArgs.now, cardArgs.millis,
                                        cardArgs.eventDetails))
    /\ UNCHANGED <<cardArgs, hashArgs, hashes, texts, normalized, dateArgs,
                   eventDate, historyArgs>>
    /\ UNCHANGED <<serviceVars, clientVars>>

\* A millisecond goes by between two calls.
Millisecond ==
    /\ cardArgs.millis < MaxMillis
    /\ cardArgs' = [cardArgs EXCEPT !.millis = @ + 1]
    /\ UNCHANGED <<card, hashArgs, hashes, texts, normalized, dateArgs,
                   eventDate, historyArgs>>
    /\ UNCHANGED <<serviceVars, clientVars>>

RecordNext == WriteVCard \/ WriteVCalendar \/ Millisecond

SpecRecord == RecordInit /\ [][RecordNext]_vars

\* The records made so far by a function, and those that were returned.
RecordsBy(by) ==
    {card.records[i] : i \in {k \in DOMAIN card.records :
                                  card.records[k].by = by}}

Returned == {card.records[i] : i \in {k \in DOMAIN card.records :
                                         ~card.records[k].threw}}

\* The values of the lines of a record that have a name.
ValuesOf(record, name) ==
    {record.lines[i].value : i \in {k \in DOMAIN record.lines :
                                       record.lines[k].name = name}}

\* A compact UTC timestamp: YYYYMMDD, T, HHMMSS, Z.
IsCompactTimestamp(value) ==
    /\ Len(value) = 16
    /\ \A i \in (1..8) \cup (10..15) : value[i] \in DigitChars
    /\ value[9] = "T"
    /\ value[16] = "Z"

\* C21: createEventVCard never throws and always returns a record whose
\* DTSTART and DTEND are well-formed compact UTC timestamps, for every
\* EventDetails: malformed phrases and unparsable ISO strings give defaults.
C21_VCardAlwaysWellFormed ==
    \A record \in RecordsBy("createEventVCard") :
        /\ ~record.threw
        /\ ValuesOf(record, "DTSTART") # {}
        /\ ValuesOf(record, "DTEND") # {}
        /\ \A value \in ValuesOf(record, "DTSTART")
                           \cup ValuesOf(record, "DTEND") :
               IsCompactTimestamp(value)

\* C22: createEventVCalendar returns a record for every EventDetails and
\* never throws, also when startDateISO or endDateISO is a non-empty string
\* that is not a valid date.
C22_VCalendarNeverThrows ==
    \A record \in RecordsBy("createEventVCalendar") : ~record.threw

\* The record has the fixed header and footer around its lines.
HasHeaderAndFooter(record) ==
    LET n == Len(record.lines)
    IN  /\ n >= 6
        /\ record.lines[1] = Line("BEGIN", <<"VCALENDAR">>)
        /\ record.lines[n - 1] = Line("END", <<"VEVENT">>)
        /\ record.lines[n] = Line("END", <<"VCALENDAR">>)

\* The number of lines of a record that have a name.
LineCount(record, name) ==
    Cardinality({i \in DOMAIN record.lines : record.lines[i].name = name})

\* The lines of the free-text fields, with the field each one carries.
FieldLines ==
    << [name |-> "SUMMARY", field |-> cardArgs.eventDetails.title],
       [name |-> "DESCRIPTION", field |-> cardArgs.eventDetails.description],
       [name |-> "LOCATION", field |-> cardArgs.eventDetails.location] >>

\* C23: every record has its UID and DTSTAMP lines between the fixed
\* header and footer, and a SUMMARY, DESCRIPTION or LOCATION line exactly
\* when the title, description or location is present: an absent field
\* gives no empty line and no placeholder.
C23_OptionalLinesOnlyWhenPresent ==
    \A record \in Returned :
        /\ HasHeaderAndFooter(record)
        /\ LineCount(record, "UID") = 1
        /\ LineCount(record, "DTSTAMP") = 1
        /\ \A k \in DOMAIN FieldLines :
               LineCount(record, FieldLines[k].name)
                  = IF Truthy(FieldLines[k].field) THEN 1 ELSE 0

\* C24: no SUMMARY, DESCRIPTION or LOCATION line of a record has a raw
\* line break: every newline of the title, the description and the
\* location is written as a backslash and an n.
C24_NoRawLineBreak ==
    \A record \in Returned :
        \A k \in DOMAIN FieldLines :
            \A value \in ValuesOf(record, FieldLines[k].name) :
                \A i \in DOMAIN value : value[i] # "\n"

\* C25: any two records made in one process have different UID values,
\* also when they are made within the same millisecond.
C25_UidsDiffer ==
    \A i, j \in DOMAIN card.records :
        (/\ i # j
         /\ ~card.records[i].threw
         /\ ~card.records[j].threw) =>
            ValuesOf(card.records[i], "UID") # ValuesOf(card.records[j], "UID")

\* C26: every DTSTAMP, DTSTART and DTEND value is its instant in UTC as
\* YYYYMMDD, T, HHMMSS, Z: 16 characters, without "-", ":" or fractions of
\* a second; 08:00 of 25 December 2024 is 20241225T080000Z and 09:00 is
\* 20241225T090000Z.
C26_CompactUtcTimestamps ==
    \A record \in Returned :
        /\ \A name \in {"DTSTAMP", "DTSTART", "DTEND"} :
               \A value \in ValuesOf(record, name) : IsCompactTimestamp(value)
        /\ ValuesOf(record, "DTSTAMP")
              = {<<"2", "0", "2", "4", "1", "2", "2", "5", "T",
                   "0", "8", "0", "0", "0", "0", "Z">>}
        /\ (/\ record.by = "createEventVCard"
            /\ ~Truthy(cardArgs.eventDetails.startDateISO)
            /\ cardArgs.eventDetails.date = <<"25/12/2024">>
            /\ cardArgs.eventDetails.time = Null) =>
               /\ ValuesOf(record, "DTSTART")
                     = {<<"2", "0", "2", "4", "1", "2", "2", "5", "T",
                          "0", "8", "0", "0", "0", "0", "Z">>}
               /\ ValuesOf(record, "DTEND")
                     = {<<"2", "0", "2", "4", "1", "2", "2", "5", "T",
                          "0", "9", "0", "0", "0", "0", "Z">>}

(***************************************************************************)
(* The handling of inbound messages: order and errors.                     *)
(***************************************************************************)
\* Handler h is inside handleIncomingMessage.
InPipeline(h) == handler[h].pc # "idle"

\* C27: the runs of the pipeline are sequential: one handleIncomingMessage
\* execution is over before the next one starts, within one messages.upsert
\* batch and across batches.
C27_PipelineRunsSequential ==
    \A h1, h2 \in Handlers : (InPipeline(h1) /\ InPipeline(h2)) => h1 = h2

\* A step of handler h keeps it on its message, at a later await, or takes
\* it to the next message of its batch that is not dropped (to rest when
\* there is none).
StaysOrGoesOn(h) ==
    LET hd == handler[h]
        after == handler'[h]
    IN  \/ after = hd
        \/ /\ after.pc \in {"analyze", "sendUnified", "sendText", "sendFallback"}
           /\ after.msg = hd.msg
           /\ after.batch = hd.batch
        \/ after = StartNext(hd.batch, messageHistory, socket).handler

\* A unified message of handler h has failed in this step while the socket
\* is ready.
UnifiedSendFailed(h) ==
    /\ handler[h].pc = "sendUnified"
    /\ handler'[h] # handler[h]
    /\ outbox' = outbox
    /\ socket /\ isReady

AllowedChatNames == {<<"family">>}

\* name.includes(part)
Contains(name, part) ==
    \E i \in 1..(Len(name) - Len(part) + 1) :
        SubSeq(name, i, i + Len(part) - 1) = part

\* C29: with ALLOWED_CHAT_NAMES set, a message is analysed only if the
\* name of its chat contains one of the configured names; with it not set
\* the messages of all chats are analysed.
C29_OnlyAllowedChatsAnalysed ==
    \A h \in Handlers :
        (AllowedChatNames # {} /\ handler[h].pc = "analyze") =>
            \E name \in AllowedChatNames :
                Contains(handler[h].msg.chat.name, name)

(***************************************************************************)
(* The statistics of the duplicate cache.                                  *)
(***************************************************************************)
\* NodeCache.getStats: hits and misses are counted by get, mget and take,
\* which the service never calls; has and set leave them at 0.
NodeCacheGetStats == [hits |-> 0, misses |-> 0]

\* EventDeduplicationService.getCacheStats
getCacheStats(c) ==
    [keys |-> Cardinality(DOMAIN c), hits |-> NodeCacheGetStats.hits,
     misses |-> NodeCacheGetStats.misses, ttl |-> TTL_SECONDS]

\* EventDeduplicationService.getTtlHours
getTtlHours == TTL_SECONDS \div 3600

\* This step is a duplicate check; it found a duplicate.
CheckStep ==
    /\ nCalls' = nCalls + 1
    /\ ret'.op \in {"isDuplicateEvent", "shouldProcessEvent"}

FoundDuplicate ==
    IF ret'.op = "isDuplicateEvent" THEN ret'.value ELSE ~ret'.value

\* C30: after any sequence of duplicate checks getCacheStats() reports the
\* number of stored fingerprints as keys, the number of checks that found
\* a duplicate as hits and the number that found none as misses, and
\* getTtlHours() reports the configured retention window in hours.
C30_StatsCountChecks ==
    [][/\ getCacheStats(cache').keys = Cardinality(DOMAIN cache')
       /\ getTtlHours' = TtlHours(ttlEnv')
       /\ CheckStep =>
             /\ getCacheStats(cache').hits
                   = getCacheStats(cache).hits
                     + (IF FoundDuplicate THEN 1 ELSE 0)
             /\ getCacheStats(cache').misses
                   = getCacheStats(cache).misses
                     + (IF FoundDuplicate THEN 0 ELSE 1)]_vars

(***************************************************************************)
(* The socket's events on their own: any sequence of connection updates,   *)
(* with the reconnections they start, of chat and group updates and of     *)
(* calls of disconnect().                                                  *)
(***************************************************************************)
MaxUpdates == 5

\* One more event of the socket or call of disconnect().
ConnectionEvent ==
    /\ events < MaxUpdates
    /\ events' = events + 1

ConnectionInit ==
    /\ ServiceConstructed(Null)
    /\ ClientConstructed
    /\ \E id \in EnvTargetGroupIds : targetGroupId = configureTargetGroup(id)
    /\ NothingCalled

ConnectionNext ==
    \/ Initialize
    \/ \E c \in {"close", "open", "connecting"}, lo \in BOOLEAN :
          ConnectionEvent /\ ConnectionUpdate(c, lo)
    \/ ConnectionEvent /\ Disconnect
    \/ \E chat \in ChatPool : ConnectionEvent /\ ChatsUpsert(chat)
    \/ \E g \in GroupPool, hasSubject \in BOOLEAN :
          ConnectionEvent /\ GroupsUpdate(g, hasSubject)
    \/ Reconnect
    \/ DisconnectDone

SpecConnection == ConnectionInit /\ [][ConnectionNext]_vars

\* WhatsAppClient.isConnected
isConnected == isReady /\ connectionState = "open"

\* This step starts a reconnection; creates a socket; resets the counter.
ReconnectionStarted == reconnecting' > reconnecting
SocketCreated == reconnecting' < reconnecting \/ (initialized' /\ ~initialized)
CounterReset == reconnectAttempts' < reconnectAttempts

\* The parts of C31 that do not count closes.
ReconnectRules ==
    /\ ReconnectionStarted =>
          /\ connectionState' = "close"
          /\ lastDisconnect' # "loggedOut"
          /\ shouldReconnect
          /\ reconnectAttempts < maxReconnectAttempts
    /\ CounterReset =>
          reconnectAttempts' = 0 /\ connectionState' = "open" /\ isReady'

DisconnectCalled == ~shouldReconnect
DisconnectReturned == ~shouldReconnect /\ ~loggingOut

\* C32: once disconnect() has been called no socket is created any more,
\* and from its return on isConnected() is false, also when a close handler
\* was waiting out its reconnection delay when disconnect() was called.
C32_DisconnectIsFinal ==
    /\ [][DisconnectCalled => ~SocketCreated]_vars
    /\ [](DisconnectReturned => ~isConnected)

\* C33: isReady is true only if connectionState is "open", whatever the
\* order of the connection updates, so that the send helpers, which test
\* isReady alone, never send while the state is "close" or "connecting".
C33_ReadyOnlyWhenOpen == isReady => connectionState = "open"

(***************************************************************************)
(* The pipeline: the bot's own messages.                                   *)
(***************************************************************************)
\* A message of the bot itself, or a text with a marker of its summaries.
OwnOrSummary(m) ==
    \/ m.fromMe
    \/ Includes(m.text, "Event Summary:")
    \/ Includes(m.text, "Event details")

\* The batches made of such messages only.
OwnBatches == {b \in Batches : \A i \in DOMAIN b : OwnOrSummary(b[i])}

NewDecision == Len(decisions') > Len(decisions)
LastDecision == decisions'[Len(decisions')]

\* The notifications delivered for a fingerprint.
DeliveredFor(fp) ==
    {n \in DOMAIN outbox : Fingerprint(outbox[n].analysis) = fp}

\* The duplicate checks of a fingerprint that returned true.
AcceptedFor(fp) ==
    {d \in DOMAIN decisions : decisions[d].fp = fp /\ decisions[d].value}

\* C35: shouldProcessEvent marks the fingerprint before the delivery is
\* tried and whatever comes of it: after a check that returned true the
\* fingerprint is in the cache, also when there is no target group or the
\* send fails; every later check of the fingerprint inside the retention
\* window returns false; and there are no more notifications for a
\* fingerprint than checks that returned true.
C35_MarkedBeforeDelivery ==
    /\ [][(NewDecision /\ LastDecision.value) =>
              LastDecision.fp \in DOMAIN cache']_vars
    /\ [](\A i, j \in DOMAIN decisions :
            (/\ i < j
             /\ decisions[i].fp = decisions[j].fp
             /\ decisions[i].value
             /\ decisions[j].at < decisions[i].at + RetentionWindowMs)
                => ~decisions[j].value)
    /\ [](\A d \in DOMAIN decisions :
            Cardinality(DeliveredFor(decisions[d].fp))
                <= Cardinality(AcceptedFor(decisions[d].fp)))

\* A new event came while there was no target group, or its send failed:
\* nothing was delivered, and the same event has been turned down since.
C35_Witness ==
    /\ Len(decisions) = 2
    /\ decisions[1].fp = decisions[2].fp
    /\ decisions[1].value /\ ~decisions[2].value
    /\ decisions[2].at < decisions[1].at + RetentionWindowMs
    /\ outbox = <<>>
    /\ \A h \in Handlers : handler[h].pc = "idle"

(***************************************************************************)
(* OpenAIService.addMessageToHistory called on its own, for two chats.     *)
(***************************************************************************)
MaxAdded == 7

HistoryChats == {GroupChat.id, UserChat.id}
HistoryTexts == {PlainText, <<"ok">>}

\* OpenAIService.getMessageHistory
getMessageHistory(hist, chatId) ==
    IF chatId \in DOMAIN hist THEN hist[chatId] ELSE <<>>

\* The number of messages added so far, over all chats.
RECURSIVE TotalLen(_, _)
TotalLen(f, chats) ==
    IF chats = {} THEN 0
    ELSE LET c == CHOOSE x \in chats : TRUE
         IN  Len(f[c]) + TotalLen(f, chats \ {c})

HistoryInit ==
    /\ ProgramIdle
    /\ hashArgs = NoArgs
    /\ hashes = NoArgs
    /\ texts = NoArgs
    /\ normalized = NoArgs
    /\ dateArgs = NoArgs
    /\ eventDate = NoArgs
    /\ cardArgs = NoArgs
    /\ card = NoArgs
    /\ historyArgs = [c \in HistoryChats |-> <<>>]

AddMessageToHistory(chatId, message) ==
    /\ TotalLen(historyArgs, HistoryChats) < MaxAdded
    /\ historyArgs' = [historyArgs EXCEPT ![chatId] = Append(@, message)]
    /\ messageHistory' = addMessageToHistory(messageHistory, chatId, message)
    /\ UNCHANGED <<targetGroupId, handler, received, outbox, decisions,
                   events>>
    /\ UNCHANGED <<serviceVars, connectionVars>>
    /\ UNCHANGED <<hashArgs, hashes, texts, normalized, dateArgs, eventDate,
                   cardArgs, card>>

HistoryNext ==
    \E chatId \in HistoryChats, message \in HistoryTexts :
        AddMessageToHistory(chatId, message)

SpecHistory == HistoryInit /\ [][HistoryNext]_vars

\* The last k elements of a sequence.
LastOf(seq, k) == SubSeq(seq, Len(seq) - k + 1, Len(seq))

Min(a, b) == IF a < b THEN a ELSE b

\* C36: for every chat, getMessageHistory is the last min(n, 5) of the n
\* messages added for the chat, in the order they came; adding to one chat
\* leaves the history of every other chat as it was.
C36_LastFiveInOrder ==
    /\ [](\A c \in HistoryChats :
            getMessageHistory(messageHistory, c) =
                LastOf(historyArgs[c],
                       Min(Len(historyArgs[c]), MAX_HISTORY_LENGTH)))
    /\ [][\A c \in HistoryChats :
            historyArgs'[c] = historyArgs[c] =>
                getMessageHistory(messageHistory', c) =
                    getMessageHistory(messageHistory, c)]_vars

\* Six messages have been added for one chat, not all alike, and one for
\* the other.
C36_Witness ==
    /\ Len(historyArgs[GroupChat.id]) = 6
    /\ historyArgs[GroupChat.id][1] # historyArgs[GroupChat.id][6]
    /\ Len(historyArgs[UserChat.id]) = 1
    /\ Len(getMessageHistory(messageHistory, GroupChat.id)) = 5

(***************************************************************************)
(* The target group.                                                       *)
(***************************************************************************)
\* The groups that have the name of the target group.
NamedAsTarget == {c \in ChatPool : c.isGroup /\ c.name = targetGroupName}

\* C37: targetGroupId, once it is not null, never changes, so that an id
\* from the environment stands whatever groups are found; and it is
\* assigned only while it is null and only the id of a group whose name
\* is targetGroupName.
C37_TargetGroupIdAssignedOnce ==
    /\ [][targetGroupId # Null => targetGroupId' = targetGroupId]_vars
    /\ [][targetGroupId' # targetGroupId =>
            /\ targetGroupId = Null
            /\ \E c \in NamedAsTarget : targetGroupId' = c.id]_vars
    /\ [](targetGroupId \in EnvTargetGroupIds
                             \cup {c.id : c \in NamedAsTarget})

\* Three chat or group updates and nothing else have come to a client
\* that had its target group id from the environment.
C37_Witness ==
    /\ targetGroupId = <<"env@g.us">>
    /\ events = 3
    /\ connectionState = "close" /\ closes = 0 /\ shouldReconnect

(***************************************************************************)
(* createEventVCard: the ISO strings before the phrases.                   *)
(***************************************************************************)
\* The instant an ISO string denotes, if it denotes one.
InstantsOf(iso) ==
    IF IsInvalidDate(iso) THEN <<>> ELSE <<getTime(NewDate(iso))>>

ByVCard == card.done /\ card.by = "createEventVCard"

StartISO == cardArgs.eventDetails.startDateISO
EndISO == cardArgs.eventDetails.endDateISO

\* C38: in createEventVCard a startDateISO that is there makes the date
\* and time phrases count for nothing: DTSTART is the instant of
\* startDateISO, and DTEND the instant of endDateISO when that is there,
\* else one hour after the start; the phrases are read only when there is
\* no startDateISO.
C38_IsoBeforePhrases ==
    ByVCard =>
        /\ card.path = "phrase" => ~Truthy(StartISO)
        /\ Truthy(StartISO) =>
              /\ card.path # "phrase"
              /\ <<card.DTSTART>> = InstantsOf(StartISO)
              /\ IF Truthy(EndISO)
                 THEN <<card.DTEND>> = InstantsOf(EndISO)
                 ELSE card.DTEND = card.DTSTART + 60

\* C38 as amended: the same for strings that are dates; a startDateISO
\* that is not a date leaves both lines at the current time, and an
\* endDateISO that is not a date leaves DTEND at the current time.
C38_ParsedIsoBeforePhrases ==
    ByVCard =>
        /\ card.path = "phrase" => ~Truthy(StartISO)
        /\ Truthy(StartISO) =>
              /\ card.path # "phrase"
              /\ IF IsInvalidDate(StartISO)
                 THEN /\ card.DTSTART = getTime(cardArgs.now)
                      /\ card.DTEND = getTime(cardArgs.now)
                 ELSE /\ <<card.DTSTART>> = InstantsOf(StartISO)
                      /\ IF ~Truthy(EndISO)
                         THEN card.DTEND = card.DTSTART + 60
                         ELSE IF IsInvalidDate(EndISO)
                         THEN card.DTEND = getTime(cardArgs.now)
                         ELSE <<card.DTEND>> = InstantsOf(EndISO)

\* A record for an event with a start instant and with the phrases
\* "tomorrow" and "3 pm", made at 14:37 of 4 January 2023: it starts at
\* 18:00 of 3 January 2025 and ends at 19:00.
C38_Witness ==
    /\ ByVCard
    /\ StartISO = IsoValid
    /\ EndISO = Null
    /\ cardArgs.eventDetails.date = <<"tomorrow">>
    /\ cardArgs.eventDetails.time = <<"3", "pm">>
    /\ cardArgs.now = DateTime(CalendarDate(2023, 0, 4), 14 * 60 + 37)
    /\ card.DTSTART = getTime(DateTime(CalendarDate(2025, 0, 3), 18 * 60))
    /\ card.DTEND = getTime(DateTime(CalendarDate(2025, 0, 3), 19 * 60))

(***************************************************************************)
(* The pipeline: one notification for a new event.                         *)
(***************************************************************************)
SendStates == {"sendUnified", "sendText", "sendFallback"}

\* The duplicate checks that call for a notification: the event was new
\* and the target group known.  Those made by the handler, at the instant
\* and for the fingerprint of check d.
CallsFor(d) == decisions[d].value /\ decisions[d].groupId # Null

SameCheck(a, b) == a.h = b.h /\ a.at = b.at /\ a.fp = b.fp

ChecksLike(d) ==
    {e \in DOMAIN decisions : CallsFor(e) /\ SameCheck(decisions[e], decisions[d])}

\* The notifications delivered for them.
DeliveriesLike(d) ==
    {n \in DOMAIN outbox :
        /\ outbox[n].h = decisions[d].h
        /\ outbox[n].decidedAt = decisions[d].at
        /\ Fingerprint(outbox[n].analysis) = decisions[d].fp}

\* The event has what the calendar attachment needs.
Complete(analysis) == analysis.title # Null /\ analysis.startDateISO # Null

\* The unified message goes with complete events only, the text-only
\* summary with the others, the text fallback with complete ones.
KindsFit ==
    \A n \in DOMAIN outbox :
        /\ outbox[n].kind \in SendStates
        /\ outbox[n].kind = "sendText" <=> ~Complete(outbox[n].analysis)

Quiet == \A h \in Handlers : handler[h].pc = "idle"

\* C39: for each new event handled while the target group is known,
\* exactly one notification is delivered to the target group: the unified
\* message with the attachment if and only if the event has a title and a
\* startDateISO, else the text-only summary; a failed attachment send is
\* followed by the text fallback, and no second attachment is tried.
C39_ExactlyOneNotification ==
    /\ [](KindsFit /\ \A n \in DOMAIN outbox : outbox[n].to # Null)
    /\ [](Quiet => \A d \in DOMAIN decisions :
                      CallsFor(d) =>
                          Cardinality(DeliveriesLike(d))
                              = Cardinality(ChecksLike(d)))
    /\ [][\A h \in Handlers :
            handler[h].pc = "sendFallback" => handler'[h].pc # "sendUnified"]_vars

\* C39 as amended: at most one notification is delivered for each such
\* event, and none for any other check; with the client ready a send is
\* started for it, the unified message for a complete event whose
\* attachment can be built, the text fallback for one whose attachment
\* cannot, the text-only summary for the others; a failed attachment send
\* is followed by the text fallback while the client is ready; a delivery
\* ends the handling of the message; and after the fallback no attachment
\* is tried.
C39_AtMostOneNotification ==
    /\ [](KindsFit /\ \A n \in DOMAIN outbox : outbox[n].to # Null)
    /\ [](\A d \in DOMAIN decisions :
            Cardinality(DeliveriesLike(d)) <= Cardinality(ChecksLike(d)))
    /\ [][(/\ NewDecision
           /\ LastDecision.value /\ LastDecision.groupId # Null
           /\ socket /\ isReady) =>
              LET hd == handler'[LastDecision.h]
              IN  hd.pc = IF ~Complete(hd.analysis) THEN "sendText"
                          ELSE IF IsValidDate(hd.analysis.startDateISO)
                          THEN "sendUnified" ELSE "sendFallback"]_vars
    /\ [][\A h \in Handlers :
            /\ handler[h].pc = "sendFallback" => handler'[h].pc # "sendUnified"
            /\ (handler[h].pc = "sendUnified" /\ handler'[h] # handler[h]
                 /\ outbox' = outbox /\ socket /\ isReady)
                  => handler'[h].pc = "sendFallback"
            /\ (handler[h].pc \in SendStates /\ Len(outbox') > Len(outbox)
                 /\ outbox'[Len(outbox')].h = h)
                  => handler'[h].pc \notin SendStates
            /\ (handler'[h].pc = "sendFallback" /\ handler[h].pc # "sendFallback")
                  => \/ handler[h].pc = "sendUnified" /\ outbox' = outbox
                     \/ handler[h].pc = "analyze"
                        /\ ~IsValidDate(handler'[h].analysis.startDateISO)]_vars

\* The attachment send of a complete new event failed and its text
\* fallback has been delivered: the one notification of the event.
C39_Witness ==
    /\ Quiet
    /\ Len(decisions) = 1
    /\ CallsFor(1)
    /\ Len(outbox) = 1
    /\ outbox[1].kind = "sendFallback"
    /\ IsValidDate(outbox[1].analysis.startDateISO)
    /\ DeliveriesLike(1) = {1}

=============================================================================
